---------------------------- MODULE Spec2Model ----------------------------
(***************************************************************************)
(* Model of the sios Policy Decision Point.                                *)
(*                                                                         *)
(*  SpecDelegate: the delegating Enforcer of                               *)
(*      src/external_service_policy_files/glance/policy.py                 *)
(*      (check / enforce forwarded to the remote PDP over HTTP, the        *)
(*      _http_request retry loop, the admin token cache).                  *)
(*  SpecPolicy:   the local Enforcer of src/sios/policy/glance/glance.py   *)
(*      (rules evaluated locally through oslo_policy).                     *)
(*                                                                         *)
(* Python values are tagged records: [t |-> "bool", b |-> ..],             *)
(* [t |-> "int", i |-> ..], [t |-> "str", s |-> ..], [t |-> "dict",        *)
(* d |-> function], [t |-> "list"], [t |-> "none"].                        *)
(***************************************************************************)
EXTENDS Integers, Sequences, FiniteSets, TLC

VARIABLES
    \* ---- delegating Enforcer (policy.py) ----
    pc,                 \* worker -> "idle" | "request" (inside _http_request's loop)
    call,               \* worker -> the call in flight or last made
    retry,              \* worker -> _http_request's local `retry`
    attempts,           \* worker -> conn.request() calls made by the current call
    fails,              \* worker -> attempts of the current call that raised
    sleeps,             \* worker -> time.sleep() arguments of the current call, in half-seconds
    outcome,            \* worker -> how the last call ended
    admin_token,        \* self.admin_token
    admin_token_expiry, \* self.admin_token_expiry
    conn,               \* worker -> the connection of the current call: "none" | "new" |
                        \* "open" | "closed"
    \* ---- local Enforcer (glance.py) ----
    rules,              \* self.rules: rule name -> rule expression
    use_conf,           \* self.use_conf
    policy_path,        \* self.policy_path: "" until the policy file was located
    policy_disk,        \* the policy file on the search path: exists, mtime, document
    file_cache,         \* fileutils' cache entry of the policy file: mtime, data
    lastCall,           \* the last Enforcer.check / Enforcer.enforce call and its outcome
    \* ---- policy proxies (glance.py) ----
    image,              \* the image the proxies wrap: visibility, locations, status, ..
    lastOp,             \* the last proxy operation: its steps in order and its outcome
    \* ---- other components ----
    request_context,    \* the RequestContext last constructed (context.py)
    rabbit,             \* the RabbitStrategy and the call running on it (notify_kombu.py)
    server,             \* the wsgi Server: children, running (wsgi.py)
    reader,             \* the LimitingReader: limit, bytes_read (utils.py)
    resource            \* the last Resource.__call__: the calls it made (wsgi.py)

delegateVars == <<pc, call, retry, attempts, fails, sleeps, outcome,
                  admin_token, admin_token_expiry, conn>>
policyVars == <<rules, use_conf, policy_path, policy_disk, file_cache,
                lastCall>>
proxyVars == <<image, lastOp>>
otherVars == <<request_context, rabbit, server, reader, resource>>
vars == <<delegateVars, policyVars, proxyVars, otherVars>>

-----------------------------------------------------------------------------
(* Python values *)

PyNone == [t |-> "none"]
PyBool(b) == [t |-> "bool", b |-> b]
PyInt(i) == [t |-> "int", i |-> i]
PyStr(s) == [t |-> "str", s |-> s]
PyDict(d) == [t |-> "dict", d |-> d]
PyList == [t |-> "list"]
EmptyMap == [k \in {} |-> PyNone]

\* bool(v): Python truthiness
Truthy(v) ==
    CASE v.t = "none" -> FALSE
      [] v.t = "bool" -> v.b
      [] v.t = "int"  -> v.i # 0
      [] v.t = "str"  -> v.s # ""
      [] v.t = "dict" -> DOMAIN v.d # {}
      [] v.t = "list" -> FALSE
      [] v.t = "datetime" -> TRUE

\* v == False in Python: bool is an int, so 0 == False; nothing else equals False
PyEqFalse(v) ==
    \/ v.t = "bool" /\ v.b = FALSE
    \/ v.t = "int" /\ v.i = 0


-----------------------------------------------------------------------------
(* jsonutils.loads, timeutils.parse_isotime, timeutils.normalize_time *)

KsGoodA == "{\"access\": {\"token\": {\"id\": \"A\", \"expires\": \"2030-01-01T00:00:00Z\"}}}"
KsGoodB == "{\"access\": {\"token\": {\"id\": \"B\", \"expires\": \"2030-01-01T02:00:00+02:00\"}}}"
KsNoExpires == "{\"access\": {\"token\": {\"id\": \"A\"}}}"
KsEmptyId == "{\"access\": {\"token\": {\"id\": \"\", \"expires\": \"2030-01-01T00:00:00Z\"}}}"
KsBadTime == "{\"access\": {\"token\": {\"id\": \"A\", \"expires\": \"tomorrow\"}}}"
KsError == "{\"error\": \"unauthorized\"}"

TokenDoc(fields) == PyDict([access |-> PyDict([token |-> PyDict(fields)])])

\* The response bodies the servers are taken to send: JSON scalars, JSON documents
\* of the identity service, and text that is not JSON.
PdpBodies == {"true", "false", "null", "0", "1", "{}", "Forbidden", ""}
KsBodies == {KsGoodA, KsGoodB, KsNoExpires, KsEmptyId, KsBadTime, KsError,
             "null", "Forbidden"}

\* What the server a call talks to may answer: the remote PDP for check and
\* enforce, the identity service for the token request.
BodiesFor(op) == IF op = "token" THEN KsBodies ELSE PdpBodies

\* jsonutils.loads(body): [ok |-> TRUE, val |-> value], or [ok |-> FALSE] for ValueError
JsonLoads(body) ==
    CASE body = "true"  -> [ok |-> TRUE, val |-> PyBool(TRUE)]
      [] body = "false" -> [ok |-> TRUE, val |-> PyBool(FALSE)]
      [] body = "null"  -> [ok |-> TRUE, val |-> PyNone]
      [] body = "0"     -> [ok |-> TRUE, val |-> PyInt(0)]
      [] body = "1"     -> [ok |-> TRUE, val |-> PyInt(1)]
      [] body = "{}"    -> [ok |-> TRUE, val |-> PyDict(EmptyMap)]
      [] body = KsGoodA -> [ok |-> TRUE, val |->
            TokenDoc([id |-> PyStr("A"), expires |-> PyStr("2030-01-01T00:00:00Z")])]
      [] body = KsGoodB -> [ok |-> TRUE, val |->
            TokenDoc([id |-> PyStr("B"), expires |-> PyStr("2030-01-01T02:00:00+02:00")])]
      [] body = KsNoExpires -> [ok |-> TRUE, val |-> TokenDoc([id |-> PyStr("A")])]
      [] body = KsEmptyId -> [ok |-> TRUE, val |->
            TokenDoc([id |-> PyStr(""), expires |-> PyStr("2030-01-01T00:00:00Z")])]
      [] body = KsBadTime -> [ok |-> TRUE, val |->
            TokenDoc([id |-> PyStr("A"), expires |-> PyStr("tomorrow")])]
      [] body = KsError -> [ok |-> TRUE, val |-> PyDict([error |-> PyStr("unauthorized")])]
      [] OTHER -> [ok |-> FALSE]

\* timeutils.parse_isotime(s): an aware datetime as [h: local hour count, off: utc offset
\* in hours], or [ok |-> FALSE] for ValueError
parse_isotime(s) ==
    CASE s = "2030-01-01T00:00:00Z"      -> [ok |-> TRUE, h |-> 0, off |-> 0]
      [] s = "2030-01-01T02:00:00+02:00" -> [ok |-> TRUE, h |-> 2, off |-> 2]
      [] OTHER -> [ok |-> FALSE]

\* timeutils.normalize_time(dt): the naive UTC datetime
normalize_time(dt) == [t |-> "datetime", h |-> dt.h - dt.off]

-----------------------------------------------------------------------------
(* The delegating Enforcer: external_service_policy_files/glance/policy.py *)

Workers == {"w1", "w2"}

\* RETRIES = 3
RETRIES == 3

\* Names bound at module level of policy.py (imports and assignments).
ModuleGlobals == {"datetime", "httplib", "json", "logging", "os", "stat", "time",
                  "urllib", "webob", "traceback", "cfg", "exception", "jsonutils",
                  "timeutils", "LOG", "opts", "CONF", "Enforcer"}

\* Attributes Enforcer.__init__ sets on the instance (the class defines none).
InstanceAttrs == {"keystone_auth_host", "keystone_auth_port", "sios_auth_host",
                  "sios_auth_port", "auth_protocol", "http_client_class",
                  "auth_admin_prefix", "cert_file", "key_file", "admin_token",
                  "admin_token_expiry", "admin_user", "admin_password",
                  "admin_tenant_name", "http_connect_timeout", "auth_version"}

\* Evaluating a global name: the name itself, or NameError when the module binds none.
GlobalName(name) == IF name \in ModuleGlobals THEN name ELSE "NameError"

\* `self.LOG.<level>(..); raise <exc>(..)`: the attribute lookup comes first.
LogThenRaise(exc) ==
    IF "LOG" \in InstanceAttrs THEN GlobalName(exc) ELSE "AttributeError"

AuthToks == {PyNone, PyStr("tok")}
Actions == {"get_image", "add_image"}
DTargets == {"{}", "{'owner': 't1'}"}

\* _json_request's request (lines 243-256): the default headers with the
\* caller's additional headers set over them (`if additional_headers:`, with None
\* and {} alike nothing is merged), the path behind the configured prefix
auth_admin_prefix == "/identity_admin"
NoHeaders == [h \in {} |-> PyNone]
DefaultHeaders == [h \in {"Content-type", "Accept"} |-> PyStr("application/json")]
JsonRequestHeaders(additional) ==
    [h \in DOMAIN DefaultHeaders \cup DOMAIN additional |->
        IF h \in DOMAIN additional THEN additional[h] ELSE DefaultHeaders[h]]
Request(additional, path) ==
    [headers |-> JsonRequestHeaders(additional), path |-> auth_admin_prefix \o path]
NoRequest == [headers |-> NoHeaders, path |-> ""]

\* The headers check and enforce pass (lines 287, 301)
PdpHeaders(auth_tok, action, target) ==
    [h \in {"X-Auth-Token", "X-Action", "X-Target"} |->
        CASE h = "X-Auth-Token" -> auth_tok
          [] h = "X-Action" -> PyStr(action)
          [] h = "X-Target" -> PyStr(target)]

NoCall == [op |-> "none", auth_tok |-> PyNone, action |-> "", target |-> "",
           cached |-> PyNone, request |-> NoRequest]
NoOutcome == [kind |-> "none"]
Return(v) == [kind |-> "return", val |-> v]
Raise(e) == [kind |-> "raise", exc |-> e]

\* A call enters _json_request/_http_request: retry = 0, first attempt pending,
\* the connection object made (line 208) and not yet connected.
BeginRequest(w, c) ==
    /\ pc' = [pc EXCEPT ![w] = "request"]
    /\ conn' = [conn EXCEPT ![w] = "new"]
    /\ call' = [call EXCEPT ![w] = c]
    /\ retry' = [retry EXCEPT ![w] = 0]
    /\ attempts' = [attempts EXCEPT ![w] = 0]
    /\ fails' = [fails EXCEPT ![w] = 0]
    /\ sleeps' = [sleeps EXCEPT ![w] = <<>>]
    /\ outcome' = [outcome EXCEPT ![w] = NoOutcome]

\* A call ends without entering _http_request.
EndAtOnce(w, c, o) ==
    /\ pc' = [pc EXCEPT ![w] = "idle"]
    /\ conn' = [conn EXCEPT ![w] = "none"]
    /\ call' = [call EXCEPT ![w] = c]
    /\ retry' = [retry EXCEPT ![w] = 0]
    /\ attempts' = [attempts EXCEPT ![w] = 0]
    /\ fails' = [fails EXCEPT ![w] = 0]
    /\ sleeps' = [sleeps EXCEPT ![w] = <<>>]
    /\ outcome' = [outcome EXCEPT ![w] = o]

\* Mutant: check without its test of auth_tok
CheckStartsRequest_NoGuard(auth_tok) == TRUE

\* Enforcer.check's guard (lines 285-286): the remote call is made only with a token
CheckStartsRequest(auth_tok) == auth_tok # PyNone

\* Enforcer.check, up to the remote call

Delegate_check(w, auth_tok, action, target) ==
    /\ pc[w] = "idle"
    /\ LET c == [op |-> "check", auth_tok |-> auth_tok, action |-> action,
                 target |-> target, cached |-> PyNone, request |-> NoRequest]
           rq == Request(PdpHeaders(auth_tok, action, target), "/v1/pdp/check_glance")
       IN IF CheckStartsRequest(auth_tok)
          THEN BeginRequest(w, [c EXCEPT !.request = rq])
          ELSE EndAtOnce(w, c, Return(PyBool(FALSE)))
    /\ UNCHANGED <<admin_token, admin_token_expiry>>
    /\ UNCHANGED <<policyVars, proxyVars, otherVars>>

\* Enforcer.enforce, up to the remote call: no test of auth_tok, the request is
\* always made (X-Auth-Token carries auth_tok whatever it is)
Delegate_enforce(w, auth_tok, action, target) ==
    /\ pc[w] = "idle"
    /\ BeginRequest(w, [op |-> "enforce", auth_tok |-> auth_tok, action |-> action,
                        target |-> target, cached |-> PyNone,
                        request |-> Request(PdpHeaders(auth_tok, action, target),
                                            "/v1/pdp/enforce_glance")])
    /\ UNCHANGED <<admin_token, admin_token_expiry>>
    /\ UNCHANGED <<policyVars, proxyVars, otherVars>>

\* Enforcer.get_admin_token, up to the token request.  With an expiry set,
\* will_expire_soon(..) is evaluated first, a name the module does not bind.
get_admin_token(w) ==
    /\ pc[w] = "idle"
    /\ LET c == [op |-> "token", auth_tok |-> PyNone, action |-> "", target |-> "",
                 cached |-> admin_token, request |-> NoRequest]
       IN IF Truthy(admin_token_expiry)
          THEN EndAtOnce(w, c, Raise(GlobalName("will_expire_soon")))
          ELSE IF ~Truthy(admin_token)
               THEN BeginRequest(w, [c EXCEPT !.request =
                                        Request(NoHeaders, "/v2.0/tokens")])
               ELSE EndAtOnce(w, c, Return(admin_token))
    /\ UNCHANGED <<admin_token, admin_token_expiry>>
    /\ UNCHANGED <<policyVars, proxyVars, otherVars>>

\* _request_admin_token after _json_request returned `data` (lines 150-164):
\* [ok |-> TRUE, token, expiry] or [ok |-> FALSE, exc]
IsDict(v) == v.t = "dict"

request_admin_token_result(data) ==
    IF ~IsDict(data) THEN [ok |-> FALSE, exc |-> "TypeError"]
    ELSE IF "access" \notin DOMAIN data.d
    THEN [ok |-> FALSE, exc |-> LogThenRaise("ServiceError")]          \* KeyError
    ELSE LET access == data.d["access"] IN
    IF ~IsDict(access) THEN [ok |-> FALSE, exc |-> "TypeError"]
    ELSE IF "token" \notin DOMAIN access.d
    THEN [ok |-> FALSE, exc |-> LogThenRaise("ServiceError")]          \* KeyError
    ELSE LET tok == access.d["token"] IN
    IF ~IsDict(tok) THEN [ok |-> FALSE, exc |-> "TypeError"]
    ELSE IF "id" \notin DOMAIN tok.d \/ "expires" \notin DOMAIN tok.d
    THEN [ok |-> FALSE, exc |-> LogThenRaise("ServiceError")]          \* KeyError
    ELSE IF ~Truthy(tok.d["id"]) \/ ~Truthy(tok.d["expires"])
    THEN [ok |-> FALSE, exc |-> LogThenRaise("ServiceError")]          \* AssertionError
    ELSE LET dt == parse_isotime(tok.d["expires"].s) IN
    IF ~dt.ok
    THEN [ok |-> FALSE, exc |-> LogThenRaise("ServiceError")]          \* ValueError
    ELSE [ok |-> TRUE, token |-> tok.d["id"], expiry |-> normalize_time(dt)]

\* _json_request's parse of the body (lines 259-265): the parsed data, or, for a
\* body that is not JSON, the ValueError handler `self.LOG.debug(..); data = {}`
json_request_result(body) ==
    IF JsonLoads(body).ok THEN [ok |-> TRUE, data |-> JsonLoads(body).val]
    ELSE IF "LOG" \in InstanceAttrs THEN [ok |-> TRUE, data |-> PyDict(EmptyMap)]
    ELSE [ok |-> FALSE, exc |-> "AttributeError"]

\* Enforcer.check's result from `data` (line 290)
check_result(data) == Return(data)

\* Enforcer.enforce's result from `data` (lines 304-307)
enforce_result(data) ==
    IF PyEqFalse(data) THEN Raise("Forbidden") ELSE Return(data)

\* conn.request(..) connects a connection that is not connected (httplib's
\* auto_open)
ConnInAttempt(c) == "open"

\* Mutant: an attempt that leaves the connection as the request left it
ConnAfterAttempt_NoClose(c) == ConnInAttempt(c)

\* `finally: conn.close()` (lines 226-227), run when the attempt's try block or
\* its except block is left, by break, by falling through or by raise
ConnAfterAttempt(c) == "closed"

\* An attempt of _http_request succeeds (lines 214-217, 227, 229) and the caller
\* continues with the body: _json_request, then check / enforce /
\* _request_admin_token and get_admin_token's assignment.
http_request_ok(w, body) ==
    /\ pc[w] = "request"
    /\ pc' = [pc EXCEPT ![w] = "idle"]
    /\ attempts' = [attempts EXCEPT ![w] = @ + 1]
    /\ conn' = [conn EXCEPT ![w] = ConnAfterAttempt(conn[w])]
    /\ UNCHANGED <<call, retry, fails, sleeps>>
    /\ UNCHANGED <<policyVars, proxyVars, otherVars>>
    /\ LET jr == json_request_result(body)
           data == jr.data
           tr == request_admin_token_result(data)
       IN  CASE ~jr.ok ->
                  /\ outcome' = [outcome EXCEPT ![w] = Raise(jr.exc)]
                  /\ UNCHANGED <<admin_token, admin_token_expiry>>
             [] jr.ok /\ call[w].op = "check" ->
                  /\ outcome' = [outcome EXCEPT ![w] = check_result(data)]
                  /\ UNCHANGED <<admin_token, admin_token_expiry>>
             [] jr.ok /\ call[w].op = "enforce" ->
                  /\ outcome' = [outcome EXCEPT ![w] = enforce_result(data)]
                  /\ UNCHANGED <<admin_token, admin_token_expiry>>
             [] jr.ok /\ call[w].op = "token" ->
                  IF tr.ok
                  THEN /\ admin_token' = tr.token
                       /\ admin_token_expiry' = tr.expiry
                       /\ outcome' = [outcome EXCEPT ![w] = Return(tr.token)]
                  ELSE /\ outcome' = [outcome EXCEPT ![w] = Raise(tr.exc)]
                       /\ UNCHANGED <<admin_token, admin_token_expiry>>

\* `retry == RETRIES` (line 219): the handler gives up
GivesUp(r) == r = RETRIES

\* time.sleep(2.0 ** retry / 2), in half-seconds
Backoff(r) == 2 ^ r

\* An attempt of _http_request raises (lines 218-227): the except block, then
\* conn.close().  Both branches of the block start with a self.LOG call.
http_request_except(w) ==
    /\ pc[w] = "request"
    /\ attempts' = [attempts EXCEPT ![w] = @ + 1]
    /\ fails' = [fails EXCEPT ![w] = @ + 1]
    /\ conn' = [conn EXCEPT ![w] = ConnAfterAttempt(conn[w])]
    /\ UNCHANGED <<call, admin_token, admin_token_expiry>>
    /\ UNCHANGED <<policyVars, proxyVars, otherVars>>
    /\ IF GivesUp(retry[w])
       THEN /\ pc' = [pc EXCEPT ![w] = "idle"]
            /\ outcome' = [outcome EXCEPT ![w] = Raise(LogThenRaise("ServiceError"))]
            /\ UNCHANGED <<retry, sleeps>>
       ELSE IF "LOG" \notin InstanceAttrs
       THEN /\ pc' = [pc EXCEPT ![w] = "idle"]
            /\ outcome' = [outcome EXCEPT ![w] = Raise("AttributeError")]
            /\ UNCHANGED <<retry, sleeps>>
       ELSE /\ sleeps' = [sleeps EXCEPT ![w] = Append(@, Backoff(retry[w]))]
            /\ retry' = [retry EXCEPT ![w] = @ + 1]
            /\ UNCHANGED <<pc, outcome>>

DelegateNext ==
    \/ \E w \in Workers, tok \in AuthToks, a \in Actions, t \in DTargets :
          Delegate_check(w, tok, a, t)
    \/ \E w \in Workers, tok \in AuthToks, a \in Actions, t \in DTargets :
          Delegate_enforce(w, tok, a, t)
    \/ \E w \in Workers : get_admin_token(w)
    \/ \E w \in Workers : \E body \in BodiesFor(call[w].op) : http_request_ok(w, body)
    \/ \E w \in Workers : http_request_except(w)

-----------------------------------------------------------------------------
(* Rule expressions and their evaluation (oslo_policy checks, as invoked by *)
(* the local Enforcer through super().enforce)                              *)

TrueCheck == [k |-> "true"]                                \* "@"
FalseCheck == [k |-> "false"]                              \* "!"
RoleCheck(match) == [k |-> "role", match |-> match]        \* "role:<match>"
RuleCheck(match) == [k |-> "rule", match |-> match]        \* "rule:<match>"
\* "<kind>:%(<tkey>)s": the credential `kind` equals the target's `tkey`
GenericCheck(kind, tkey) == [k |-> "generic", kind |-> kind, tkey |-> tkey]
AndCheck(es) == [k |-> "and", rules |-> es]
OrCheck(es) == [k |-> "or", rules |-> es]
NotCheck(e) == [k |-> "not", rule |-> e]

\* policy_default_rule
default_rule == "default"

\* str.lower() on the role names in use
Lower(s) == IF s = "Admin" THEN "admin" ELSE s

\* Mutant: a rule set without __missing__, an unlisted name is a KeyError
RuleLookup_NoDefault(rs, name) ==
    IF name \in DOMAIN rs THEN [found |-> TRUE, rule |-> rs[name]]
    ELSE [found |-> FALSE]

\* Rules.__getitem__ with __missing__: the named rule, else the default rule,
\* else KeyError
RuleLookup(rs, name) ==
    IF name \in DOMAIN rs THEN [found |-> TRUE, rule |-> rs[name]]
    ELSE IF default_rule \in DOMAIN rs THEN [found |-> TRUE, rule |-> rs[default_rule]]
    ELSE [found |-> FALSE]

RECURSIVE CheckHolds(_, _, _, _)
CheckHolds(e, target, creds, rs) ==
    CASE e.k = "true" -> TRUE
      [] e.k = "false" -> FALSE
      [] e.k = "role" ->
            /\ "roles" \in DOMAIN creds
            /\ Lower(e.match) \in {Lower(r) : r \in creds["roles"]}
      [] e.k = "rule" ->
            /\ RuleLookup(rs, e.match).found
            /\ CheckHolds(RuleLookup(rs, e.match).rule, target, creds, rs)
      [] e.k = "generic" ->
            /\ e.tkey \in DOMAIN target
            /\ e.kind \in DOMAIN creds
            /\ target[e.tkey] = creds[e.kind]
      [] e.k = "and" ->
            \A i \in 1..Len(e.rules) : CheckHolds(e.rules[i], target, creds, rs)
      [] e.k = "or" ->
            \E i \in 1..Len(e.rules) : CheckHolds(e.rules[i], target, creds, rs)
      [] e.k = "not" -> ~CheckHolds(e.rule, target, creds, rs)

\* policy.Enforcer.enforce after load_rules: no rules, or an unknown rule with
\* no default, fail closed
RuleResult(rs, rule, target, creds) ==
    IF DOMAIN rs = {} THEN FALSE
    ELSE IF ~RuleLookup(rs, rule).found THEN FALSE
    ELSE CheckHolds(RuleLookup(rs, rule).rule, target, creds, rs)

\* `if do_raise and not result: raise exc(..)`, else `return result`
PolicyEnforceResult(result, do_raise, exc) ==
    IF do_raise /\ ~result THEN Raise(exc) ELSE Return(PyBool(result))

-----------------------------------------------------------------------------
(* The local Enforcer: sios/policy/glance/glance.py *)

\* Mutant: built-in rules whose default denies
DEFAULT_RULES_DenyAll ==
    [context_is_admin |-> RoleCheck("admin"),
     default |-> FalseCheck,
     manage_image_cache |-> RoleCheck("admin")]

\* DEFAULT_RULES
DEFAULT_RULES ==
    [context_is_admin |-> RoleCheck("admin"),
     default |-> TrueCheck,
     manage_image_cache |-> RoleCheck("admin")]

NoRules == [n \in {} |-> TrueCheck]

\* Policy documents an operator may install as policy_glance.json
\* {"get_image": "role:admin", "default": "@"}
DocA == [get_image |-> RoleCheck("admin"), default |-> TrueCheck]
\* {"get_image": "tenant:%(owner)s or rule:context_is_admin",
\*  "context_is_admin": "role:admin",
\*  "manage_image_cache": "role:admin and not role:member",
\*  "default": "!"}
DocB == [get_image |-> OrCheck(<<GenericCheck("tenant", "owner"),
                                 RuleCheck("context_is_admin")>>),
         context_is_admin |-> RoleCheck("admin"),
         manage_image_cache |-> AndCheck(<<RoleCheck("admin"),
                                          NotCheck(RoleCheck("member"))>>),
         default |-> FalseCheck]
PolicyDocs == {DocA, DocB}

MaxMtime == 2

NoFile == [exists |-> FALSE, mtime |-> 0, doc |-> NoRules]
NoCache == [cached |-> FALSE, mtime |-> 0, data |-> NoRules]

RoleSets == {{}, {"member"}, {"admin"}, {"Admin", "member"}}
\* RequestContext(auth_tok, user, tenant, roles) as constructed beside an Enforcer
\* holding the built-in rules: read_only and show_deleted keep their defaults and
\* is_admin is what check_is_admin answered in __init__ (role:admin)
RequestContext(auth_tok, user, tenant, roles) ==
    [auth_tok |-> auth_tok, user |-> user, tenant |-> tenant, roles |-> roles,
     is_admin |-> ("admin" \in {Lower(r) : r \in roles}),
     read_only |-> FALSE, show_deleted |-> FALSE]
Contexts == {RequestContext("tok", "u1", t, r) : t \in {"t1", "t2"}, r \in RoleSets}
PActions == {"get_image", "manage_image_cache", "list_images"}
EmptyTarget == [k \in {} |-> ""]
Targets == {EmptyTarget, [owner |-> "t1"]}

NoPolicyCall == [made |-> FALSE]

\* dict.update
Update(old, new) ==
    [n \in DOMAIN old \cup DOMAIN new |-> IF n \in DOMAIN new THEN new[n] ELSE old[n]]

\* policy.Enforcer.load_rules() as the Enforcer was constructed (overwrite=False):
\* [ok, exc, rules, policy_path, file_cache] after the call; read: the file's
\* contents were read (read_cached_file reloaded), parsed: Rules.load was called
\* on the text (`if reloaded or not self.rules or not overwrite`)
load_rules ==
    IF ~use_conf
    THEN [ok |-> TRUE, rules |-> rules, policy_path |-> policy_path,
          file_cache |-> file_cache, read |-> FALSE, parsed |-> FALSE]
    ELSE IF policy_path = "" /\ ~policy_disk.exists
    THEN [ok |-> FALSE, exc |-> "ConfigFilesNotFoundError", rules |-> rules,
          policy_path |-> policy_path, file_cache |-> file_cache,
          read |-> FALSE, parsed |-> FALSE]
    ELSE IF ~policy_disk.exists
    THEN [ok |-> FALSE, exc |-> "OSError", rules |-> rules,
          policy_path |-> policy_path, file_cache |-> file_cache,
          read |-> FALSE, parsed |-> FALSE]
    ELSE LET reloaded == ~file_cache.cached \/ policy_disk.mtime > file_cache.mtime
             cache == IF reloaded
                      THEN [cached |-> TRUE, mtime |-> policy_disk.mtime,
                            data |-> policy_disk.doc]
                      ELSE file_cache
             overwrite == FALSE
         IN [ok |-> TRUE, rules |-> Update(rules, cache.data),
             policy_path |-> "policy_glance.json", file_cache |-> cache,
             read |-> reloaded,
             parsed |-> (reloaded \/ DOMAIN rules = {} \/ ~overwrite)]

\* The credentials the Enforcer builds from the context (lines 69-73, 87-91)
Credentials(context) ==
    [roles |-> context.roles, user |-> context.user, tenant |-> context.tenant]

\* Mutant: enforce calling super().enforce without do_raise
EnforceOutcome_NoRaise(ld, context, action, target) ==
    IF ~ld.ok THEN Raise(ld.exc)
    ELSE PolicyEnforceResult(RuleResult(ld.rules, action, target, Credentials(context)),
                             FALSE, "Forbidden")

\* Enforcer.enforce: super().enforce(action, target, credentials, do_raise=True,
\* exc=exception.Forbidden, action=action) on the loaded rules
EnforceOutcome(ld, context, action, target) ==
    IF ~ld.ok THEN Raise(ld.exc)
    ELSE PolicyEnforceResult(RuleResult(ld.rules, action, target, Credentials(context)),
                             TRUE, "Forbidden")

\* Mutant: check evaluating without the context's roles
CheckOutcome_NoRoles(ld, context, action, target) ==
    IF ~ld.ok THEN Raise(ld.exc)
    ELSE PolicyEnforceResult(
            RuleResult(ld.rules, action, target,
                       [user |-> context.user, tenant |-> context.tenant]),
            FALSE, "PolicyNotAuthorized")

\* Enforcer.check: super().enforce(action, target, credentials) on the loaded rules
CheckOutcome(ld, context, action, target) ==
    IF ~ld.ok THEN Raise(ld.exc)
    ELSE PolicyEnforceResult(RuleResult(ld.rules, action, target, Credentials(context)),
                             FALSE, "PolicyNotAuthorized")

\* RequestContext.to_dict(): the keys made of the context's user, tenant and roles
\* (request_id, is_admin, read_deleted, auth_token and service_catalog are keys
\* no rule of the documents refers to)
to_dict(context) ==
    [user |-> context.user, user_id |-> context.user,
     tenant |-> context.tenant, tenant_id |-> context.tenant,
     project_id |-> context.tenant, roles |-> context.roles]

\* Mutant: check_is_admin asking for the default rule
CheckIsAdminOutcome_Default(ld, context) ==
    CheckOutcome(ld, context, "default", to_dict(context))

\* Enforcer.check_is_admin: self.check(context, 'context_is_admin', context.to_dict())
CheckIsAdminOutcome(ld, context) ==
    CheckOutcome(ld, context, "context_is_admin", to_dict(context))

\* Mutant: an Enforcer that marks the context it has been given as admin
ContextAfterCall_SetsAdmin(context) ==
    [context EXCEPT !.is_admin = TRUE]

\* The context object once a method of the Enforcer has run on it: enforce, check
\* and check_is_admin read context.roles, context.user and context.tenant (and
\* to_dict()) and assign to no attribute of it
ContextAfterCall(context) ==
    context

PolicyCall(op, ld, context, action, target, o) ==
    [made |-> TRUE, op |-> op, context |-> context, action |-> action, target |-> target,
     credentials |-> Credentials(context), rules |-> ld.rules, loaded |-> ld.ok,
     read |-> ld.read, outcome |-> o, context_after |-> ContextAfterCall(context)]

Installs(ld) ==
    /\ rules' = ld.rules
    /\ policy_path' = ld.policy_path
    /\ file_cache' = ld.file_cache
    /\ UNCHANGED <<use_conf, policy_disk>>

\* Enforcer.enforce(context, action, target)
Enforcer_enforce(context, action, target) ==
    /\ Installs(load_rules)
    /\ lastCall' = PolicyCall("enforce", load_rules, context, action, target,
                              EnforceOutcome(load_rules, context, action, target))
    /\ UNCHANGED <<delegateVars, proxyVars, otherVars>>

\* Enforcer.check(context, action, target)
Enforcer_check(context, action, target) ==
    /\ Installs(load_rules)
    /\ lastCall' = PolicyCall("check", load_rules, context, action, target,
                              CheckOutcome(load_rules, context, action, target))
    /\ UNCHANGED <<delegateVars, proxyVars, otherVars>>

\* Enforcer.check_is_admin(context)
Enforcer_check_is_admin(context) ==
    /\ Installs(load_rules)
    /\ lastCall' = PolicyCall("check_is_admin", load_rules, context,
                              "context_is_admin", to_dict(context),
                              CheckIsAdminOutcome(load_rules, context))
    /\ UNCHANGED <<delegateVars, proxyVars, otherVars>>

\* The operator rewrites the policy file (the mtime is that of the second of writing)
WritePolicyFile(doc, mtime) ==
    /\ mtime >= policy_disk.mtime
    /\ policy_disk' = [exists |-> TRUE, mtime |-> mtime, doc |-> doc]
    /\ policy_disk' # policy_disk
    /\ UNCHANGED <<rules, use_conf, policy_path, file_cache, lastCall>>
    /\ UNCHANGED <<delegateVars, proxyVars, otherVars>>

\* The operator removes the policy file
DeletePolicyFile ==
    /\ policy_disk.exists
    /\ policy_disk' = [exists |-> FALSE, mtime |-> policy_disk.mtime, doc |-> NoRules]
    /\ UNCHANGED <<rules, use_conf, policy_path, file_cache, lastCall>>
    /\ UNCHANGED <<delegateVars, proxyVars, otherVars>>

PolicyNext ==
    \/ \E c \in Contexts, a \in PActions, t \in Targets : Enforcer_enforce(c, a, t)
    \/ \E c \in Contexts, a \in PActions, t \in Targets : Enforcer_check(c, a, t)
    \/ \E c \in Contexts : Enforcer_check_is_admin(c)
    \/ \E d \in PolicyDocs, m \in 1..MaxMtime : WritePolicyFile(d, m)
    \/ DeletePolicyFile

-----------------------------------------------------------------------------
(* The policy proxies: sios/policy/glance/glance.py *)

\* An object is given by its attributes; no object (no image wrapped) has none
NoImage == [a \in {} |-> PyNone]
NoOp == [made |-> FALSE]

\* A list value
PyListOf(l) == [t |-> "list", l |-> l]

\* getattr(obj, name, default)
Getattr(obj, name, default) ==
    IF name \in DOMAIN obj THEN obj[name] ELSE default

\* ImageTarget.SENTINEL = object()
SENTINEL == [t |-> "object"]

\* ImageTarget.key_transforms
key_transforms(key) ==
    IF key = "id" THEN "image_id" ELSE key

\* dict.__getitem__
DictGetitem(d, key) ==
    IF key \in DOMAIN d.d THEN Return(d.d[key]) ELSE Raise("KeyError")

\* Mutant: a lookup that does not rename the key
ImageTarget_getitem_NoTransform(target, key) ==
    LET value == Getattr(target, key, SENTINEL)
        extra_properties == Getattr(target, "extra_properties", PyNone)
    IN IF value # SENTINEL THEN Return(value)
       ELSE IF extra_properties # PyNone THEN DictGetitem(extra_properties, key)
       ELSE Return(PyNone)

\* ImageTarget(target).__getitem__(key)
ImageTarget_getitem(target, key) ==
    LET k == key_transforms(key)
        value == Getattr(target, k, SENTINEL)
        extra_properties == Getattr(target, "extra_properties", PyNone)
    IN IF value # SENTINEL THEN Return(value)
       ELSE IF extra_properties # PyNone THEN DictGetitem(extra_properties, k)
       ELSE Return(PyNone)

\* The image the proxies wrap (owner t1, one extra property, one location)
ImageUrls == {"file://a", "file://b"}
Image0 ==
    [image_id |-> PyStr("i1"), owner |-> PyStr("t1"), visibility |-> PyStr("private"),
     locations |-> PyListOf(<<"file://a">>),
     extra_properties |-> PyDict([os |-> PyStr("linux")])]

\* Other objects an ImageTarget is made of: an image without owner or extra
\* properties set, and an image member, which has no extra_properties
ImageNoOwner ==
    [image_id |-> PyStr("i2"), owner |-> PyNone, visibility |-> PyStr("private"),
     locations |-> PyListOf(<<>>), extra_properties |-> PyDict(EmptyMap)]
ImageMember ==
    [image_id |-> PyStr("i1"), member_id |-> PyStr("t2"), status |-> PyStr("pending")]

\* The keys the rules and the callers look up on a target
TargetKeys == {"id", "image_id", "owner", "member_id", "os", "arch"}

\* str(value), as `match % target` renders a looked-up value
Str(v) == IF v = PyNone THEN "None" ELSE v.s

\* What a rule sees of ImageTarget(obj): the keys whose lookup returns, rendered
\* (a KeyError of the lookup is the KeyError of `match % target`)
ImageTarget(obj) ==
    [k \in {k \in TargetKeys : ImageTarget_getitem(obj, k).kind = "return"} |->
        Str(ImageTarget_getitem(obj, k).val)]

\* ImageTarget(obj)[key], by a rule or another caller
ImageTarget_lookup(obj, key) ==
    /\ lastOp' = [made |-> TRUE, op |-> "ImageTarget.__getitem__", target |-> obj,
                  key |-> key, outcome |-> ImageTarget_getitem(obj, key)]
    /\ UNCHANGED <<image, policyVars, delegateVars, otherVars>>

\* A policy document for the image operations:
\* {"default": "role:member or role:admin",
\*  "get_image": "tenant:%(owner)s or role:admin",
\*  "publicize_image": "role:admin", "delete_image_location": "role:admin"}
DocP == [default |-> OrCheck(<<RoleCheck("member"), RoleCheck("admin")>>),
         get_image |-> OrCheck(<<GenericCheck("tenant", "owner"), RoleCheck("admin")>>),
         publicize_image |-> RoleCheck("admin"),
         delete_image_location |-> RoleCheck("admin")]

\* The contexts the proxies are constructed with
ProxyContexts ==
    {RequestContext("tok", "u1", "t1", {}), RequestContext("tok", "u1", "t2", {"member"}),
     RequestContext("tok", "u1", "t1", {"admin"})}

\* The longest list of locations an image is given
MaxLocations == 2
LocationLists == UNION {[1..n -> ImageUrls] : n \in 0..MaxLocations}

\* The target a proxy passes to enforce: {} or an ImageTarget of the wrapped image
TargetOf(tname) ==
    IF tname = "image" THEN ImageTarget(image) ELSE EmptyTarget

\* self.policy.enforce(self.context, action, target) made by a proxy, as an event
\* of the operation (every enforce of one operation finds the same policy file)
Enforce(context, action, tname) ==
    [e |-> "enforce", action |-> action, target |-> tname,
     outcome |-> EnforceOutcome(load_rules, context, action, TargetOf(tname))]

Permitted(ev) == ev.outcome.kind = "return"

\* A call of the wrapped object's (or the base class's) method, as an event
BaseCall(name) == [e |-> "base", op |-> name]

EnforceEvents(events) == SelectSeq(events, LAMBDA ev : ev.e = "enforce")

\* One operation of a proxy: its events in order, its outcome and the wrapped
\* image after it; the Enforcer's rules follow the enforce calls made
ProxyOp(name, context, arg, events, o, img) ==
    /\ lastOp' = [made |-> TRUE, op |-> name, context |-> context, arg |-> arg,
                  events |-> events, outcome |-> o, before |-> image]
    /\ image' = img
    /\ IF EnforceEvents(events) # <<>>
       THEN Installs(load_rules) /\ UNCHANGED lastCall
       ELSE UNCHANGED policyVars
    /\ UNCHANGED <<delegateVars, otherVars>>

\* The methods that enforce one action and then call the wrapped object
GuardedMethods ==
    {"ImageRepoProxy.list", "ImageRepoProxy.save", "ImageRepoProxy.add",
     "ImageProxy.delete", "ImageProxy.deactivate", "ImageProxy.reactivate",
     "ImageProxy.get_data", "ImageProxy.set_data",
     "ImageMemberRepoProxy.add", "ImageMemberRepoProxy.get",
     "ImageMemberRepoProxy.save", "ImageMemberRepoProxy.list",
     "ImageMemberRepoProxy.remove"}

\* The action each of them enforces
MethodAction(m) ==
    CASE m = "ImageRepoProxy.list" -> "get_images"
      [] m = "ImageRepoProxy.save" -> "modify_image"
      [] m = "ImageRepoProxy.add" -> "add_image"
      [] m = "ImageProxy.delete" -> "delete_image"
      [] m = "ImageProxy.deactivate" -> "deactivate"
      [] m = "ImageProxy.reactivate" -> "reactivate"
      [] m = "ImageProxy.get_data" -> "download_image"
      [] m = "ImageProxy.set_data" -> "upload_image"
      [] m = "ImageMemberRepoProxy.add" -> "add_member"
      [] m = "ImageMemberRepoProxy.get" -> "get_member"
      [] m = "ImageMemberRepoProxy.save" -> "modify_member"
      [] m = "ImageMemberRepoProxy.list" -> "get_members"
      [] m = "ImageMemberRepoProxy.remove" -> "delete_member"

\* The target each of them enforces it on: {} for list, else the image's target
MethodTarget(m) ==
    IF m = "ImageRepoProxy.list" THEN "empty" ELSE "image"

\* Mutant: the wrapped object called before the policy is asked
GuardedEvents_BaseFirst(context, m) ==
    <<BaseCall(m), Enforce(context, MethodAction(m), MethodTarget(m))>>

\* self.policy.enforce(..) and, when it has returned, the wrapped object's method
GuardedEvents(context, m) ==
    LET ev == Enforce(context, MethodAction(m), MethodTarget(m))
    IN IF Permitted(ev) THEN <<ev, BaseCall(m)>> ELSE <<ev>>

\* The outcome of a sequence of events that ends the operation at the first
\* enforce that raises
EventsOutcome(events, result) ==
    IF \E i \in 1..Len(events) : events[i].e = "enforce" /\ ~Permitted(events[i])
    THEN events[CHOOSE i \in 1..Len(events) :
                    /\ events[i].e = "enforce" /\ ~Permitted(events[i])
                    /\ \A j \in 1..(i-1) : events[j].e = "enforce" => Permitted(events[j])]
            .outcome
    ELSE Return(result)

\* ImageRepoProxy.list/save/add, ImageProxy.delete/deactivate/reactivate/get_data/
\* set_data, ImageMemberRepoProxy.add/get/save/list/remove
GuardedMethod(context, m) ==
    ProxyOp(m, context, PyNone, GuardedEvents(context, m),
            EventsOutcome(GuardedEvents(context, m), PyNone), image)

\* The identifiers asked of the repository: that of the image and an unknown one
ImageIds == {"i1", "i9"}

\* super(ImageRepoProxy, self).get(image_id): the image, or NotFound
RepoFinds(image_id) == image.image_id = PyStr(image_id)

\* Mutant: NotFound re-raised without asking the policy
RepoGetEvents_NotFoundFirst(context, image_id) ==
    IF RepoFinds(image_id)
    THEN <<BaseCall("Repo.get"), Enforce(context, "get_image", "image")>>
    ELSE <<BaseCall("Repo.get")>>

\* ImageRepoProxy.get: the base get, then get_image enforced on {} when it raised
\* NotFound and on ImageTarget(image) when it returned the image
RepoGetEvents(context, image_id) ==
    IF RepoFinds(image_id)
    THEN <<BaseCall("Repo.get"), Enforce(context, "get_image", "image")>>
    ELSE <<BaseCall("Repo.get"), Enforce(context, "get_image", "empty")>>

\* `raise` after the enforce of the except block; `return image` after the other
RepoGetOutcome(events, image_id) ==
    IF EventsOutcome(events, image.image_id).kind = "raise"
    THEN EventsOutcome(events, image.image_id)
    ELSE IF RepoFinds(image_id) THEN Return(image.image_id)
    ELSE Raise("NotFound")

\* ImageRepoProxy.get(image_id)
ImageRepoProxy_get(context, image_id) ==
    ProxyOp("ImageRepoProxy.get", context, PyStr(image_id),
            RepoGetEvents(context, image_id),
            RepoGetOutcome(RepoGetEvents(context, image_id), image_id), image)

\* Mutant: no value asks for publicize_image
IsPublic_Never(value) ==
    FALSE

\* `value == 'public'` (the setter) and `kwargs.get('visibility') == 'public'`
IsPublic(value) ==
    value = PyStr("public")

\* The values visibility is given; None stands for no visibility keyword
Visibilities == {PyStr("public"), PyStr("private")}

\* ImageProxy.visibility = value
ImageProxy_set_visibility(context, value) ==
    LET events == IF IsPublic(value)
                  THEN <<Enforce(context, "publicize_image", "image")>> ELSE <<>>
        o == EventsOutcome(events, PyNone)
    IN ProxyOp("ImageProxy.visibility", context, value, events, o,
               IF o.kind = "return" THEN [image EXCEPT !.visibility = value] ELSE image)

\* ImageFactoryProxy.new_image(visibility=value): the image made is returned to
\* the caller, the wrapped image is another one
ImageFactoryProxy_new_image(context, value) ==
    LET events == IF IsPublic(value)
                  THEN <<Enforce(context, "publicize_image", "empty")>> ELSE <<>>
        o == EventsOutcome(events, PyStr("image"))
    IN ProxyOp("ImageFactoryProxy.new_image", context, value,
               IF o.kind = "return"
               THEN events \o <<BaseCall("ImageFactory.new_image")>> ELSE events,
               o, image)

\* An ImageLocationsProxy over the list l
LocationsProxy(l) == [t |-> "ImageLocationsProxy", l |-> l]

\* isinstance(value, (list, ImageLocationsProxy))
IsLocations(value) == value.t \in {"list", "ImageLocationsProxy"}

\* The URLs of a list of locations (a location is given by its URL)
Urls(l) == {l[i] : i \in 1..Len(l)}

\* Mutant: no URL ever counts as removed
LocationsRemoved_Never(old, new) ==
    FALSE

\* set([loc['url'] for loc in self.image.locations]) -
\* set([loc['url'] for loc in new_locations]) is not empty
LocationsRemoved(old, new) ==
    Urls(old) \ Urls(new) # {}

\* The events of the locations setter: set_image_location; list(value), which
\* reads an ImageLocationsProxy through its guarded __iter__; delete_image_location
\* when a URL goes away
SetLocationsEvents(context, value) ==
    LET set == Enforce(context, "set_image_location", "image")
        read == IF value.t = "ImageLocationsProxy"
                THEN <<Enforce(context, "get_image_location", "empty")>> ELSE <<>>
        del == IF LocationsRemoved(image.locations.l, value.l)
               THEN <<Enforce(context, "delete_image_location", "image")>> ELSE <<>>
    IN IF ~IsLocations(value) THEN <<>>
       ELSE IF ~Permitted(set) THEN <<set>>
       ELSE IF read # <<>> /\ ~Permitted(read[1]) THEN <<set>> \o read
       ELSE <<set>> \o read \o del

\* ImageProxy.locations = value
ImageProxy_set_locations(context, value) ==
    LET events == SetLocationsEvents(context, value)
        o == IF ~IsLocations(value) THEN Raise("Invalid")
             ELSE EventsOutcome(events, PyNone)
    IN ProxyOp("ImageProxy.locations", context, value, events, o,
               IF o.kind = "return"
               THEN [image EXCEPT !.locations = PyListOf(value.l)] ELSE image)

\* The values locations is given: lists, proxies over a list, and other values
LocationValues ==
    {PyListOf(l) : l \in LocationLists}
        \cup {LocationsProxy(l) : l \in {<<>>, <<"file://b">>}}
        \cup {PyStr("file://a"), PyNone}

\* The attributes of ImageLocationsProxy made by _get_checker
ReadFuncs == {"count", "index", "__getitem__", "__contains__", "__len__", "__cast",
              "__cmp__", "__iter__"}
WriteFuncs == {"append", "extend", "insert", "reverse", "__iadd__", "__setitem__"}
DeleteFuncs == {"pop", "remove", "__delitem__", "__delslice__"}
LocationFuncs == ReadFuncs \cup WriteFuncs \cup DeleteFuncs

\* Mutant: every attribute made as a read
LocationsAction_AllRead(func) ==
    "get_image_location"

\* The action _get_checker was given for the attribute
LocationsAction(func) ==
    IF func \in ReadFuncs THEN "get_image_location"
    ELSE IF func \in WriteFuncs THEN "set_image_location"
    ELSE "delete_image_location"

RemoveAt(l, i) == SubSeq(l, 1, i - 1) \o SubSeq(l, i + 1, Len(l))
FirstIndex(l, x) == CHOOSE i \in 1..Len(l) : l[i] = x /\ \A j \in 1..(i-1) : l[j] # x

\* getattr(self.locations, func_name)(..) on the list l: the list after the call
\* and what the call returns or raises. The calls made are func(x) for a value,
\* func(0, x) or func(0) for an index, func([x]) for a list, del l[0:1] for a slice;
\* a list has no __cast and no __cmp__ attribute
ListMethod(func, l, x) ==
    CASE func = "count" ->
            [list |-> l, outcome |-> Return(PyInt(Cardinality({i \in 1..Len(l) : l[i] = x})))]
      [] func = "index" ->
            [list |-> l, outcome |-> IF x \in Urls(l) THEN Return(PyInt(FirstIndex(l, x) - 1))
                                     ELSE Raise("ValueError")]
      [] func = "__getitem__" ->
            [list |-> l, outcome |-> IF l # <<>> THEN Return(PyStr(l[1]))
                                     ELSE Raise("IndexError")]
      [] func = "__contains__" -> [list |-> l, outcome |-> Return(PyBool(x \in Urls(l)))]
      [] func = "__len__" -> [list |-> l, outcome |-> Return(PyInt(Len(l)))]
      [] func = "__iter__" -> [list |-> l, outcome |-> Return(PyListOf(l))]
      [] func \in {"__cast", "__cmp__"} -> [list |-> l, outcome |-> Raise("AttributeError")]
      [] func = "append" -> [list |-> Append(l, x), outcome |-> Return(PyNone)]
      [] func = "extend" -> [list |-> l \o <<x>>, outcome |-> Return(PyNone)]
      [] func = "insert" -> [list |-> <<x>> \o l, outcome |-> Return(PyNone)]
      [] func = "reverse" ->
            [list |-> [i \in 1..Len(l) |-> l[Len(l) + 1 - i]], outcome |-> Return(PyNone)]
      [] func = "__iadd__" -> [list |-> l \o <<x>>, outcome |-> Return(PyListOf(l \o <<x>>))]
      [] func = "__setitem__" ->
            IF l # <<>> THEN [list |-> [l EXCEPT ![1] = x], outcome |-> Return(PyNone)]
            ELSE [list |-> l, outcome |-> Raise("IndexError")]
      [] func = "pop" ->
            IF l # <<>> THEN [list |-> SubSeq(l, 1, Len(l) - 1),
                              outcome |-> Return(PyStr(l[Len(l)]))]
            ELSE [list |-> l, outcome |-> Raise("IndexError")]
      [] func = "remove" ->
            IF x \in Urls(l) THEN [list |-> RemoveAt(l, FirstIndex(l, x)),
                                   outcome |-> Return(PyNone)]
            ELSE [list |-> l, outcome |-> Raise("ValueError")]
      [] func = "__delitem__" ->
            IF l # <<>> THEN [list |-> RemoveAt(l, 1), outcome |-> Return(PyNone)]
            ELSE [list |-> l, outcome |-> Raise("IndexError")]
      [] func = "__delslice__" ->
            [list |-> IF l # <<>> THEN RemoveAt(l, 1) ELSE l, outcome |-> Return(PyNone)]

\* The methods that make the list longer, and those called with a value
GrowingFuncs == {"append", "extend", "insert", "__iadd__"}
ValueFuncs == GrowingFuncs \cup {"count", "index", "__contains__", "__setitem__", "remove"}

\* _checker: self.policy.enforce(self.context, action, {}), then the method of
\* the wrapped list, which is the image's list of locations
ImageLocationsProxy_checker(context, func, x) ==
    /\ func \in GrowingFuncs => Len(image.locations.l) < MaxLocations
    /\ func \notin ValueFuncs => x = "file://a"
    /\ LET ev == Enforce(context, LocationsAction(func), "empty")
           r == ListMethod(func, image.locations.l, x)
       IN IF Permitted(ev)
          THEN ProxyOp(func, context, PyStr(x), <<ev, BaseCall(func)>>, r.outcome,
                       [image EXCEPT !.locations = PyListOf(r.list)])
          ELSE ProxyOp(func, context, PyStr(x), <<ev>>, ev.outcome, image)

ProxyNext ==
    \/ \E c \in ProxyContexts, m \in GuardedMethods : GuardedMethod(c, m)
    \/ \E c \in ProxyContexts, i \in ImageIds : ImageRepoProxy_get(c, i)
    \/ \E c \in ProxyContexts, v \in Visibilities : ImageProxy_set_visibility(c, v)
    \/ \E c \in ProxyContexts, v \in Visibilities \cup {PyNone} :
          ImageFactoryProxy_new_image(c, v)
    \/ \E c \in ProxyContexts, v \in LocationValues : ImageProxy_set_locations(c, v)
    \/ \E c \in ProxyContexts, f \in LocationFuncs, x \in ImageUrls :
          ImageLocationsProxy_checker(c, f, x)
    \/ \E o \in {image, ImageNoOwner, ImageMember}, k \in TargetKeys :
          ImageTarget_lookup(o, k)

-----------------------------------------------------------------------------
(* Objects of the other components before they are made *)

NoContext == [made |-> FALSE]
NoRabbit == [made |-> FALSE]
NoServer == [made |-> FALSE]
NoReader == [made |-> FALSE]
NoDispatch == [made |-> FALSE]

-----------------------------------------------------------------------------
(* Enforcer.add_rules: sios/policy/glance/glance.py *)

\* policy.Enforcer.set_rules(rules, overwrite, use_conf): the rule set afterwards
set_rules(old, new, overwrite) ==
    IF overwrite THEN new ELSE Update(old, new)

\* Mutant: add_rules replacing the rule set
AddRulesResult_Overwrite(old, new) ==
    set_rules(old, new, TRUE)

\* self.set_rules(rules, overwrite=False, ..)
AddRulesResult(old, new) ==
    set_rules(old, new, FALSE)

\* The rules a caller adds
AddedRules ==
    {[get_image |-> FalseCheck],
     [list_images |-> RoleCheck("member"), default |-> FalseCheck],
     [upload_image |-> RuleCheck("context_is_admin")]}

\* Enforcer.add_rules(rules)
Enforcer_add_rules(new) ==
    /\ rules' = AddRulesResult(rules, new)
    /\ use_conf' = use_conf
    /\ lastCall' = [made |-> TRUE, op |-> "add_rules", added |-> new,
                    rules_before |-> rules, use_conf_before |-> use_conf]
    /\ UNCHANGED <<policy_path, policy_disk, file_cache>>
    /\ UNCHANGED <<delegateVars, proxyVars, otherVars>>

AddRulesNext ==
    \/ \E r \in AddedRules : Enforcer_add_rules(r)
    \/ \E c \in Contexts : Enforcer_check_is_admin(c)
    \/ \E d \in PolicyDocs, m \in 1..MaxMtime : WritePolicyFile(d, m)

-----------------------------------------------------------------------------
(* RequestContext: sios/context.py *)

\* Mutant: show_deleted answering the flag alone
show_deleted_FlagOnly(obj) ==
    Truthy(obj._show_deleted)

\* RequestContext.show_deleted (property)
show_deleted(obj) ==
    IF Truthy(obj._show_deleted) \/ Truthy(obj.is_admin) THEN TRUE ELSE FALSE

\* The object while __init__ runs, after `self.is_admin = is_admin` (line 43): what
\* the enforcer is handed
ContextInInit(auth_tok, user, tenant, roles, is_admin, show_deleted_arg) ==
    [auth_tok |-> auth_tok, user |-> user, tenant |-> tenant, roles |-> roles,
     is_admin |-> is_admin, read_only |-> FALSE, show_deleted |-> show_deleted_arg]

\* RequestContext(auth_tok, user, tenant, roles, is_admin, show_deleted=..,
\* policy_enforcer=<the local Enforcer>)
RequestContext_init(auth_tok, user, tenant, roles, is_admin, show_deleted_arg) ==
    LET args == [auth_tok |-> auth_tok, user |-> user, tenant |-> tenant,
                 roles |-> roles, is_admin |-> is_admin,
                 show_deleted |-> show_deleted_arg]
        self == ContextInInit(auth_tok, user, tenant, roles, is_admin, show_deleted_arg)
        answer == CheckIsAdminOutcome(load_rules, self)
        obj == [auth_tok |-> auth_tok, user |-> user, tenant |-> tenant, roles |-> roles,
                _show_deleted |-> PyBool(show_deleted_arg), read_only |-> PyBool(FALSE),
                is_admin |-> IF is_admin THEN PyBool(TRUE)
                             ELSE IF answer.kind = "return" THEN answer.val
                             ELSE PyBool(FALSE)]
    IN /\ IF ~is_admin
          THEN /\ Installs(load_rules)
               /\ lastCall' = PolicyCall("check_is_admin", load_rules, self,
                                         "context_is_admin", to_dict(self), answer)
               /\ request_context' =
                     [made |-> TRUE, args |-> args, consulted |-> TRUE,
                      answer |-> answer, constructed |-> (answer.kind = "return"),
                      obj |-> obj]
          ELSE /\ UNCHANGED policyVars
               /\ request_context' =
                     [made |-> TRUE, args |-> args, consulted |-> FALSE,
                      answer |-> NoOutcome, constructed |-> TRUE, obj |-> obj]
       /\ UNCHANGED <<delegateVars, proxyVars, rabbit, server, reader, resource>>

ContextNext ==
    \/ \E c \in Contexts, a \in BOOLEAN, d \in BOOLEAN :
          RequestContext_init(c.auth_tok, c.user, c.tenant, c.roles, a, d)
    \/ \E d \in PolicyDocs, m \in 1..MaxMtime : WritePolicyFile(d, m)
    \/ DeletePolicyFile

-----------------------------------------------------------------------------
(* RabbitStrategy: sios/notifier/notify_kombu.py *)

\* Values of CONF.rabbit_max_retries (the default is 0)
MaxRetriesValues == {0, 1, 2}

\* The calls made to the broker within one construction or notification that
\* are followed
MaxBrokerCalls == 6

\* How self._connect() and self._send_message() end: normally, with one of
\* self.connection_errors, with another exception that has 'timeout' in its text,
\* or with another exception that has not
BrokerResults == {"ok", "connection_error", "timeout", "error"}

\* `except self.connection_errors` / `except Exception: if 'timeout' not in str(e): raise`
Retried(result) == result \in {"connection_error", "timeout"}

\* `if self.retry_attempts >= self.max_retries`
Exhausted(retry_attempts, max_retries) == retry_attempts >= max_retries

\* RabbitStrategy.__init__ up to line 88, about to call self.reconnect()
RabbitInInit(max_retries) ==
    [made |-> TRUE, max_retries |-> max_retries, connection |-> "none",
     retry_attempts |-> 0, pc |-> "reconnect", caller |-> "__init__",
     from |-> "start", connects |-> 0, publishes |-> 0, failed |-> 0,
     exhausted |-> FALSE, log_failures |-> 0, outcome |-> NoOutcome]

\* Mutant: _notify letting KombuMaxRetriesReached through
AfterExhausted_Propagates(r) ==
    [r EXCEPT !.pc = "idle", !.exhausted = TRUE, !.connection = "none",
              !.outcome = Raise("KombuMaxRetriesReached")]

\* reconnect has raised KombuMaxRetriesReached, having closed the connection
\* (lines 176-178): __init__ passes (91-92), _notify calls log_failure and returns
\* (209-211, 235-237)
AfterExhausted(r) ==
    [r EXCEPT !.pc = "idle", !.exhausted = TRUE, !.connection = "none",
              !.log_failures = IF r.caller = "_notify" THEN @ + 1 ELSE @,
              !.outcome = Return(PyNone)]

\* One pass of reconnect's loop: retry_attempts += 1, _connect() ending in
\* `result`, then return, raise, or sleep and go round again
reconnect(result) ==
    /\ rabbit.made
    /\ rabbit.pc = "reconnect"
    /\ rabbit.connects + rabbit.publishes < MaxBrokerCalls
    /\ LET r == [rabbit EXCEPT !.retry_attempts = @ + 1, !.connects = @ + 1,
                               !.failed = IF result = "ok" THEN @ ELSE @ + 1,
                               !.connection = IF result = "ok" THEN "connected"
                                              ELSE "unconnected"]
       IN rabbit' =
             CASE result = "ok" ->
                     IF r.caller = "__init__"
                     THEN [r EXCEPT !.pc = "idle", !.outcome = Return(PyNone)]
                     ELSE [r EXCEPT !.pc = "publish"]
               [] result = "error" ->
                     [r EXCEPT !.pc = IF r.caller = "__init__" THEN "failed" ELSE "idle",
                               !.outcome = Raise("Exception")]
               [] Retried(result) /\ Exhausted(r.retry_attempts, r.max_retries) ->
                     AfterExhausted(r)
               [] Retried(result) /\ ~Exhausted(r.retry_attempts, r.max_retries) -> r
    /\ UNCHANGED <<delegateVars, policyVars, proxyVars, request_context, server,
                   reader, resource>>

\* RabbitStrategy._notify(msg, priority) up to its first call of the broker
notify ==
    /\ rabbit.made
    /\ rabbit.pc = "idle"
    /\ rabbit' = [rabbit EXCEPT !.retry_attempts = 0, !.caller = "_notify",
                                !.from = "start", !.connects = 0, !.publishes = 0,
                                !.failed = 0, !.exhausted = FALSE, !.log_failures = 0,
                                !.outcome = NoOutcome,
                                !.pc = IF rabbit.connection = "none" THEN "reconnect"
                                       ELSE "publish"]
    /\ UNCHANGED <<delegateVars, policyVars, proxyVars, request_context, server,
                   reader, resource>>

\* One pass of _notify's loop: _send_message ending in `result`, then return,
\* raise, or reconnect
send_message(result) ==
    /\ rabbit.made
    /\ rabbit.pc = "publish"
    /\ rabbit.connects + rabbit.publishes < MaxBrokerCalls
    /\ LET r == [rabbit EXCEPT !.publishes = @ + 1]
       IN rabbit' =
             CASE result = "ok" -> [r EXCEPT !.pc = "idle", !.outcome = Return(PyNone)]
               [] result = "error" -> [r EXCEPT !.pc = "idle", !.outcome = Raise("Exception")]
               [] Retried(result) -> [r EXCEPT !.pc = "reconnect", !.from = "publish"]
    /\ UNCHANGED <<delegateVars, policyVars, proxyVars, request_context, server,
                   reader, resource>>

RabbitNext ==
    \/ \E result \in BrokerResults : reconnect(result)
    \/ notify
    \/ \E result \in BrokerResults : send_message(result)

-----------------------------------------------------------------------------
(* The PDP endpoints: sios/api/v1/pdp.py *)

\* The classes of sios.common.exception that are Forbidden or derive from it
ForbiddenClasses == {"Forbidden", "ForbiddenPublicImage", "ProtectedImageDelete",
                     "NotAuthorized", "ReadonlyProperty", "ReservedProperty"}

\* What the except clauses of the Controller name: the class exception.Forbidden
\* (lines 72, 93) and `exception`, the module sios.common.exception (lines 81, 102)
ForbiddenHandler == "exception.Forbidden"
ModuleHandler == "exception"

\* `except <handler>:` matches a raised exception when the handler is a class
\* the exception is an instance of; a module is not a class and matches nothing
Catches(handler, exc) ==
    handler = ForbiddenHandler /\ exc \in ForbiddenClasses

\* try: return <enforce>(..) / except <handler>: return False
Endpoint(handler, o) ==
    IF o.kind = "raise" /\ Catches(handler, o.exc) THEN Return(PyBool(FALSE)) ELSE o

\* Outcomes of policy_nova.enforce (sios.policy.nova): a permit or Forbidden
NovaEnforceOutcomes == {Return(PyBool(TRUE)), Raise("Forbidden")}

PdpCall(op, context, action, target, e, o) ==
    [made |-> TRUE, op |-> op, context |-> context, action |-> action,
     target |-> target, enforcer |-> e, outcome |-> o]

\* Controller.enforce_glance(req)
enforce_glance(context, action, target) ==
    /\ Installs(load_rules)
    /\ LET e == EnforceOutcome(load_rules, context, action, target)
       IN lastCall' = PdpCall("enforce_glance", context, action, target, e,
                              Endpoint(ForbiddenHandler, e))
    /\ UNCHANGED <<delegateVars, proxyVars, otherVars>>

\* Controller.check_glance(req): it calls policy_glance.enforce as well
check_glance(context, action, target) ==
    /\ Installs(load_rules)
    /\ LET e == EnforceOutcome(load_rules, context, action, target)
       IN lastCall' = PdpCall("check_glance", context, action, target, e,
                              Endpoint(ModuleHandler, e))
    /\ UNCHANGED <<delegateVars, proxyVars, otherVars>>

\* Controller.enforce_nova(req), policy_nova.enforce ending in e
enforce_nova(context, action, target, e) ==
    /\ lastCall' = PdpCall("enforce_nova", context, action, target, e,
                           Endpoint(ForbiddenHandler, e))
    /\ UNCHANGED <<rules, use_conf, policy_path, policy_disk, file_cache>>
    /\ UNCHANGED <<delegateVars, proxyVars, otherVars>>

\* Controller.check_nova(req), policy_nova.enforce ending in e
check_nova(context, action, target, e) ==
    /\ lastCall' = PdpCall("check_nova", context, action, target, e,
                           Endpoint(ModuleHandler, e))
    /\ UNCHANGED <<rules, use_conf, policy_path, policy_disk, file_cache>>
    /\ UNCHANGED <<delegateVars, proxyVars, otherVars>>

PdpNext ==
    \/ \E c \in Contexts, a \in PActions, t \in Targets : enforce_glance(c, a, t)
    \/ \E c \in Contexts, a \in PActions, t \in Targets : check_glance(c, a, t)
    \/ \E c \in Contexts, a \in PActions, t \in Targets, e \in NovaEnforceOutcomes :
          enforce_nova(c, a, t, e)
    \/ \E c \in Contexts, a \in PActions, t \in Targets, e \in NovaEnforceOutcomes :
          check_nova(c, a, t, e)
    \/ \E d \in PolicyDocs, m \in 1..MaxMtime : WritePolicyFile(d, m)
    \/ DeletePolicyFile

-----------------------------------------------------------------------------
(* Specifications *)

\* The delegating Enforcer after __init__ (admin_token = None, admin_token_expiry =
\* None, no call made), beside a local Enforcer constructed with no policy file
DelegateInit ==
    /\ pc = [w \in Workers |-> "idle"]
    /\ call = [w \in Workers |-> NoCall]
    /\ retry = [w \in Workers |-> 0]
    /\ attempts = [w \in Workers |-> 0]
    /\ fails = [w \in Workers |-> 0]
    /\ sleeps = [w \in Workers |-> <<>>]
    /\ outcome = [w \in Workers |-> NoOutcome]
    /\ admin_token = PyNone
    /\ admin_token_expiry = PyNone
    /\ conn = [w \in Workers |-> "none"]
    /\ image = NoImage
    /\ lastOp = NoOp
    /\ request_context = NoContext
    /\ rabbit = NoRabbit
    /\ server = NoServer
    /\ reader = NoReader
    /\ resource = NoDispatch
    /\ policy_disk = NoFile
    /\ use_conf = FALSE
    /\ rules = DEFAULT_RULES
    /\ policy_path = ""
    /\ file_cache = NoCache
    /\ lastCall = NoPolicyCall

\* The local Enforcer after __init__: with a policy file on the search path the
\* rules come from it (use_conf), without one they are DEFAULT_RULES; beside it a
\* delegating Enforcer that is never called
PolicyInit ==
    /\ policy_disk \in {NoFile} \cup [exists : {TRUE}, mtime : {1}, doc : PolicyDocs]
    /\ use_conf = policy_disk.exists
    /\ rules = IF policy_disk.exists THEN NoRules ELSE DEFAULT_RULES
    /\ policy_path = ""
    /\ file_cache = NoCache
    /\ lastCall = NoPolicyCall
    /\ pc = [w \in Workers |-> "idle"]
    /\ call = [w \in Workers |-> NoCall]
    /\ retry = [w \in Workers |-> 0]
    /\ attempts = [w \in Workers |-> 0]
    /\ fails = [w \in Workers |-> 0]
    /\ sleeps = [w \in Workers |-> <<>>]
    /\ outcome = [w \in Workers |-> NoOutcome]
    /\ admin_token = PyNone
    /\ admin_token_expiry = PyNone
    /\ conn = [w \in Workers |-> "none"]
    /\ image = NoImage
    /\ lastOp = NoOp
    /\ request_context = NoContext
    /\ rabbit = NoRabbit
    /\ server = NoServer
    /\ reader = NoReader
    /\ resource = NoDispatch

\* The proxies constructed over an image of the repository, with an Enforcer
\* constructed with the policy file on the search path, beside a delegating
\* Enforcer that is never called
ProxyInit ==
    /\ image = Image0
    /\ lastOp = NoOp
    /\ request_context = NoContext
    /\ rabbit = NoRabbit
    /\ server = NoServer
    /\ reader = NoReader
    /\ resource = NoDispatch
    /\ policy_disk = [exists |-> TRUE, mtime |-> 1, doc |-> DocP]
    /\ use_conf = policy_disk.exists
    /\ rules = IF policy_disk.exists THEN NoRules ELSE DEFAULT_RULES
    /\ policy_path = ""
    /\ file_cache = NoCache
    /\ lastCall = NoPolicyCall
    /\ pc = [w \in Workers |-> "idle"]
    /\ call = [w \in Workers |-> NoCall]
    /\ retry = [w \in Workers |-> 0]
    /\ attempts = [w \in Workers |-> 0]
    /\ fails = [w \in Workers |-> 0]
    /\ sleeps = [w \in Workers |-> <<>>]
    /\ outcome = [w \in Workers |-> NoOutcome]
    /\ admin_token = PyNone
    /\ admin_token_expiry = PyNone
    /\ conn = [w \in Workers |-> "none"]

SpecDelegate == DelegateInit /\ [][DelegateNext]_vars

SpecPolicy == PolicyInit /\ [][PolicyNext]_vars

\* The Controller after __init__ (policy_glance = glance.Enforcer()) and its
\* endpoints
SpecPdp == PolicyInit /\ [][PdpNext]_vars

SpecProxy == ProxyInit /\ [][ProxyNext]_vars

\* A RabbitStrategy being constructed, under each retry limit, beside Enforcers
\* that are never called
RabbitInit ==
    /\ rabbit \in {RabbitInInit(m) : m \in MaxRetriesValues}
    /\ request_context = NoContext
    /\ server = NoServer
    /\ reader = NoReader
    /\ resource = NoDispatch
    /\ image = NoImage
    /\ lastOp = NoOp
    /\ policy_disk = NoFile
    /\ use_conf = FALSE
    /\ rules = DEFAULT_RULES
    /\ policy_path = ""
    /\ file_cache = NoCache
    /\ lastCall = NoPolicyCall
    /\ pc = [w \in Workers |-> "idle"]
    /\ call = [w \in Workers |-> NoCall]
    /\ retry = [w \in Workers |-> 0]
    /\ attempts = [w \in Workers |-> 0]
    /\ fails = [w \in Workers |-> 0]
    /\ sleeps = [w \in Workers |-> <<>>]
    /\ outcome = [w \in Workers |-> NoOutcome]
    /\ admin_token = PyNone
    /\ admin_token_expiry = PyNone
    /\ conn = [w \in Workers |-> "none"]

SpecRabbit == RabbitInit /\ [][RabbitNext]_vars

\* The local Enforcer with rules added by its callers
SpecAddRules == PolicyInit /\ [][AddRulesNext]_vars

\* RequestContexts constructed with the local Enforcer as their policy_enforcer
SpecContext == PolicyInit /\ [][ContextNext]_vars

-----------------------------------------------------------------------------
(* Server: the parent process supervising its forked workers
   (src/sios/common/wsgi.py) *)

\* CONF.workers, with at least one worker (with 0 no child is forked and
\* wait_on_children is not called)
WorkerCounts == {1, 2, 3}

\* Process ids the system hands out; the id of a reaped child can be used again
Pids == 1 .. 4

\* What os.wait() reports of a child: WIFEXITED with WEXITSTATUS 0 or not 0,
\* WIFSIGNALED, or neither (a stopped child)
WaitStatuses == {"exit_0", "exit_1", "signaled", "stopped"}

Elems(s) == {s[i] : i \in 1 .. Len(s)}

\* list.remove(x): the list without the first x
ListRemove(s, x) ==
    LET i == CHOOSE k \in 1 .. Len(s) : s[k] = x /\ \A j \in 1 .. (k - 1) : s[j] # x
    IN  SubSeq(s, 1, i - 1) \o SubSeq(s, i + 1, Len(s))

\* The sequences of n different ids of S
DistinctSeqs(S, n) ==
    {q \in [1 .. n -> S] : \A i, j \in 1 .. n : q[i] = q[j] => i = j}

NoWait == [made |-> FALSE]

\* Server.__init__
ServerInInit(workers) ==
    [made |-> TRUE, workers |-> workers, children |-> <<>>, running |-> TRUE,
     pc |-> "init", last |-> NoWait]

WIFEXITED(status) == status \in {"exit_0", "exit_1"}

WIFSIGNALED(status) == status = "signaled"

\* The dead child is removed from the list
Reaped(status) == WIFEXITED(status) \/ WIFSIGNALED(status)

NotRespawned_Never(status) == FALSE

\* os.WIFEXITED(status) and os.WEXITSTATUS(status) != 0
NotRespawned(status) == WIFEXITED(status) /\ status # "exit_0"

\* Server.start with CONF.workers > 0: run_child until the list is full; every
\* fork gives the parent the id of a new process
Server_start(pids) ==
    /\ server.made
    /\ server.pc = "init"
    /\ Len(pids) = server.workers - Len(server.children)
    /\ server' = [server EXCEPT !.children = server.children \o pids,
                                !.pc = "wait"]
    /\ UNCHANGED <<delegateVars, policyVars, proxyVars, request_context, rabbit,
                   reader, resource>>

\* One pass of the loop of wait_on_children: os.wait() returns a child of the
\* list and its status; new_pid is what os.fork() gives run_child
wait_on_children(pid, status, new_pid) ==
    /\ server.made
    /\ server.pc = "wait"
    /\ server.running
    /\ pid \in Elems(server.children)
    /\ LET removed == IF Reaped(status) THEN ListRemove(server.children, pid)
                      ELSE server.children
           respawn == Reaped(status) /\ ~NotRespawned(status)
           after   == IF respawn THEN Append(removed, new_pid) ELSE removed
           run     == IF Reaped(status) /\ NotRespawned(status) /\ removed = <<>>
                      THEN FALSE ELSE server.running
       IN  /\ new_pid \notin Elems(removed)
           /\ server' = [server EXCEPT
                 !.children = after,
                 !.running = run,
                 !.last = [made |-> TRUE, pid |-> pid, status |-> status,
                           before |-> server.children, after |-> after,
                           running |-> run]]
    /\ UNCHANGED <<delegateVars, policyVars, proxyVars, request_context, rabbit,
                   reader, resource>>

\* SIGHUP, SIGTERM or SIGINT in the parent: hup and kill_children
Server_signal ==
    /\ server.made
    /\ server.pc = "wait"
    /\ server.running
    /\ server' = [server EXCEPT !.running = FALSE]
    /\ UNCHANGED <<delegateVars, policyVars, proxyVars, request_context, rabbit,
                   reader, resource>>

\* wait_on_children leaves its loop and closes the socket
wait_on_children_exit ==
    /\ server.made
    /\ server.pc = "wait"
    /\ ~server.running
    /\ server' = [server EXCEPT !.pc = "exited"]
    /\ UNCHANGED <<delegateVars, policyVars, proxyVars, request_context, rabbit,
                   reader, resource>>

ServerNext ==
    \/ \E n \in WorkerCounts : \E pids \in DistinctSeqs(Pids, n) :
          Server_start(pids)
    \/ \E pid \in Pids, status \in WaitStatuses, new_pid \in Pids :
          wait_on_children(pid, status, new_pid)
    \/ Server_signal
    \/ wait_on_children_exit

ServerInit ==
    /\ server \in {ServerInInit(n) : n \in WorkerCounts}
    /\ request_context = NoContext
    /\ rabbit = NoRabbit
    /\ reader = NoReader
    /\ resource = NoDispatch
    /\ image = NoImage
    /\ lastOp = NoOp
    /\ policy_disk = NoFile
    /\ use_conf = FALSE
    /\ rules = DEFAULT_RULES
    /\ policy_path = ""
    /\ file_cache = NoCache
    /\ lastCall = NoPolicyCall
    /\ pc = [w \in Workers |-> "idle"]
    /\ call = [w \in Workers |-> NoCall]
    /\ retry = [w \in Workers |-> 0]
    /\ attempts = [w \in Workers |-> 0]
    /\ fails = [w \in Workers |-> 0]
    /\ sleeps = [w \in Workers |-> <<>>]
    /\ outcome = [w \in Workers |-> NoOutcome]
    /\ admin_token = PyNone
    /\ admin_token_expiry = PyNone
    /\ conn = [w \in Workers |-> "none"]

SpecServer == ServerInit /\ [][ServerNext]_vars

-----------------------------------------------------------------------------
(* LimitingReader (src/sios/common/utils.py) *)

\* The data read from the source in one model run, in bytes
MaxBytes == 5

\* The limit the reader is made with
Limits == 0 .. 3

\* What the underlying data object gives in one step
Chunks == {"", "a", "ab", "abc"}

NoStep == [made |-> FALSE]

\* LimitingReader.__init__; gen is the generator made by __iter__: "none",
\* "live", or "done" after it raised or its source ended. obtained and delivered
\* count what the source gave and what the caller was handed
ReaderInInit(limit) ==
    [made |-> TRUE, limit |-> limit, bytes_read |-> 0, gen |-> "none",
     obtained |-> 0, delivered |-> 0, last |-> NoStep]

Exceeds_ByTwo(bytes_read, limit) == bytes_read > limit + 1

\* if self.bytes_read > self.limit
Exceeds(bytes_read, limit) == bytes_read > limit

\* self.bytes_read += len(result), then the check: the step's data goes to the
\* caller only when the check passes
ReaderStep(op, result) ==
    LET bytes_read == reader.bytes_read + Len(result)
        raises     == Exceeds(bytes_read, reader.limit)
        given      == IF raises THEN 0 ELSE Len(result)
    IN  [reader EXCEPT
            !.bytes_read = bytes_read,
            !.obtained = reader.obtained + Len(result),
            !.delivered = reader.delivered + given,
            !.gen = IF op = "next" /\ raises THEN "done" ELSE reader.gen,
            !.last = [made |-> TRUE, op |-> op, len |-> Len(result),
                      bytes_before |-> reader.bytes_read,
                      delivered_before |-> reader.delivered,
                      outcome |-> IF raises THEN Raise("ImageSizeLimitExceeded")
                                  ELSE Return(PyStr(result))]]

\* LimitingReader.read(i): result is what self.data.read(i) returns
LimitingReader_read(result) ==
    /\ reader.made
    /\ reader.obtained + Len(result) <= MaxBytes
    /\ reader' = ReaderStep("read", result)
    /\ UNCHANGED <<delegateVars, policyVars, proxyVars, request_context, rabbit,
                   server, resource>>

\* iter(reader): a new generator; its body runs at the first next()
LimitingReader_iter ==
    /\ reader.made
    /\ reader.gen # "live"
    /\ reader' = [reader EXCEPT !.gen = "live"]
    /\ UNCHANGED <<delegateVars, policyVars, proxyVars, request_context, rabbit,
                   server, resource>>

\* next() of the generator while self.data gives a chunk
LimitingReader_next(chunk) ==
    /\ reader.made
    /\ reader.gen = "live"
    /\ reader.obtained + Len(chunk) <= MaxBytes
    /\ reader' = ReaderStep("next", chunk)
    /\ UNCHANGED <<delegateVars, policyVars, proxyVars, request_context, rabbit,
                   server, resource>>

\* next() of the generator when self.data has ended: StopIteration
LimitingReader_stop ==
    /\ reader.made
    /\ reader.gen = "live"
    /\ reader' = [reader EXCEPT
          !.gen = "done",
          !.last = [made |-> TRUE, op |-> "next", len |-> 0,
                    bytes_before |-> reader.bytes_read,
                    delivered_before |-> reader.delivered,
                    outcome |-> Raise("StopIteration")]]
    /\ UNCHANGED <<delegateVars, policyVars, proxyVars, request_context, rabbit,
                   server, resource>>

ReaderNext ==
    \/ \E result \in Chunks : LimitingReader_read(result)
    \/ LimitingReader_iter
    \/ \E chunk \in Chunks : LimitingReader_next(chunk)
    \/ LimitingReader_stop

ReaderInit ==
    /\ reader \in {ReaderInInit(l) : l \in Limits}
    /\ request_context = NoContext
    /\ rabbit = NoRabbit
    /\ server = NoServer
    /\ resource = NoDispatch
    /\ image = NoImage
    /\ lastOp = NoOp
    /\ policy_disk = NoFile
    /\ use_conf = FALSE
    /\ rules = DEFAULT_RULES
    /\ policy_path = ""
    /\ file_cache = NoCache
    /\ lastCall = NoPolicyCall
    /\ pc = [w \in Workers |-> "idle"]
    /\ call = [w \in Workers |-> NoCall]
    /\ retry = [w \in Workers |-> 0]
    /\ attempts = [w \in Workers |-> 0]
    /\ fails = [w \in Workers |-> 0]
    /\ sleeps = [w \in Workers |-> <<>>]
    /\ outcome = [w \in Workers |-> NoOutcome]
    /\ admin_token = PyNone
    /\ admin_token_expiry = PyNone
    /\ conn = [w \in Workers |-> "none"]

SpecReader == ReaderInit /\ [][ReaderNext]_vars

-----------------------------------------------------------------------------
(* Resource: dispatch to deserializer, controller and serializer
   (src/sios/common/wsgi.py) *)

\* The methods an object of a Resource implements
MethodSets == SUBSET {"show", "default"}

\* What get_action_args returns: the routing arguments, {} when there are none
ActionArgs == {EmptyMap, [action |-> "show"], [action |-> "index"]}

\* action_args.pop('action', None)
PopAction(action_args) ==
    IF "action" \in DOMAIN action_args THEN PyStr(action_args["action"])
    ELSE PyNone

\* Resource.__init__ with its three objects
ResourceInInit(deserializer, controller, serializer) ==
    [made |-> TRUE,
     methods |-> [deserializer |-> deserializer, controller |-> controller,
                  serializer |-> serializer],
     called |-> FALSE]

\* getattr(obj, name): a name that is no string is a TypeError
GetattrOf(methods, name) ==
    IF name.t # "str" THEN Raise("TypeError")
    ELSE IF name.s \in methods THEN Return(name.s)
    ELSE Raise("AttributeError")

\* Resource.dispatch, up to the call of the method found: the method's name, or
\* what getattr raised
dispatch(methods, action) ==
    LET found == GetattrOf(methods, action)
    IN  IF found = Raise("AttributeError")
        THEN GetattrOf(methods, PyStr("default"))
        ELSE found

\* One dispatch of __call__ as it is recorded
Dispatched(obj, methods, action) ==
    [obj |-> obj, methods |-> methods, result |-> dispatch(methods, action)]

\* Resource.__call__: serializer_raises tells whether the serializer's method
\* raises on the controller's result. The methods of the deserializer and the
\* controller return
Resource_call(action_args, serializer_raises) ==
    /\ resource.made
    /\ LET action == PopAction(action_args)
           d == Dispatched("deserializer", resource.methods.deserializer, action)
           c == Dispatched("controller", resource.methods.controller, action)
           z == Dispatched("serializer", resource.methods.serializer, action)
           done(ds, raised, out) ==
               [resource EXCEPT !.called = TRUE] @@
               [action |-> action, dispatches |-> ds,
                serializer_raised |-> raised, outcome |-> out]
       IN  resource' =
             IF d.result.kind = "raise"
             THEN done(<<d>>, FALSE, d.result)
             ELSE IF c.result.kind = "raise"
             THEN done(<<d, c>>, FALSE, c.result)
             ELSE IF z.result.kind = "raise" \/ serializer_raises
             THEN done(<<d, c, z>>, TRUE, Return("action_result"))
             ELSE done(<<d, c, z>>, FALSE, Return("response"))
    /\ UNCHANGED <<delegateVars, policyVars, proxyVars, request_context, rabbit,
                   server, reader>>

ResourceNext ==
    \E action_args \in ActionArgs, serializer_raises \in BOOLEAN :
        Resource_call(action_args, serializer_raises)

ResourceInit ==
    /\ resource \in {ResourceInInit(d, c, z) : d \in MethodSets, c \in MethodSets,
                                               z \in MethodSets}
    /\ request_context = NoContext
    /\ rabbit = NoRabbit
    /\ server = NoServer
    /\ reader = NoReader
    /\ image = NoImage
    /\ lastOp = NoOp
    /\ policy_disk = NoFile
    /\ use_conf = FALSE
    /\ rules = DEFAULT_RULES
    /\ policy_path = ""
    /\ file_cache = NoCache
    /\ lastCall = NoPolicyCall
    /\ pc = [w \in Workers |-> "idle"]
    /\ call = [w \in Workers |-> NoCall]
    /\ retry = [w \in Workers |-> 0]
    /\ attempts = [w \in Workers |-> 0]
    /\ fails = [w \in Workers |-> 0]
    /\ sleeps = [w \in Workers |-> <<>>]
    /\ outcome = [w \in Workers |-> NoOutcome]
    /\ admin_token = PyNone
    /\ admin_token_expiry = PyNone
    /\ conn = [w \in Workers |-> "none"]

SpecResource == ResourceInit /\ [][ResourceNext]_vars

-----------------------------------------------------------------------------
(* Claims about the local Enforcer (SpecPolicy) *)

\* The rule selected for the last call's action permits, on the rules the call
\* used and the credentials made of the context's roles, user and tenant
LastCallPermits ==
    RuleResult(lastCall.rules, lastCall.action, lastCall.target,
               [roles |-> lastCall.context.roles, user |-> lastCall.context.user,
                tenant |-> lastCall.context.tenant])

\* C1: enforce(context, action, target) raises Forbidden when the rule selected
\* for the action denies and returns a non-false value when it permits; the
\* credentials evaluated are exactly the context's roles, user and tenant.
C1_EnforceRaisesOnDeny ==
    (lastCall.made /\ lastCall.op = "enforce" /\ lastCall.loaded) =>
        /\ lastCall.credentials = [roles |-> lastCall.context.roles,
                                   user |-> lastCall.context.user,
                                   tenant |-> lastCall.context.tenant]
        /\ LastCallPermits =>
              /\ lastCall.outcome.kind = "return"
              /\ Truthy(lastCall.outcome.val)
        /\ ~LastCallPermits => lastCall.outcome = Raise("Forbidden")

\* An enforce on rules loaded from a policy file was denied for a member
C1_Witness ==
    /\ lastCall.made /\ lastCall.op = "enforce" /\ lastCall.loaded
    /\ use_conf
    /\ lastCall.context.roles = {"member"}
    /\ lastCall.action = "get_image"
    /\ lastCall.outcome = Raise("Forbidden")

\* C2: check(context, action, target) never raises for a deny, it returns false;
\* and it returns a non-false value exactly where enforce on the same context,
\* action, target and rules returns without raising.
C2_CheckReturnsFalseOnDeny ==
    (lastCall.made /\ lastCall.op = "check" /\ lastCall.loaded) =>
        /\ lastCall.outcome.kind = "return"
        /\ ~LastCallPermits => lastCall.outcome.val = PyBool(FALSE)
        /\ Truthy(lastCall.outcome.val) <=>
              EnforceOutcome([ok |-> TRUE, rules |-> lastCall.rules],
                             lastCall.context, lastCall.action,
                             lastCall.target).kind = "return"

\* A check of an admin-only action was denied to a member: False was returned
C2_Witness ==
    /\ lastCall.made /\ lastCall.op = "check" /\ lastCall.loaded
    /\ lastCall.context.roles = {"member"}
    /\ lastCall.action = "manage_image_cache"
    /\ lastCall.outcome = Return(PyBool(FALSE))

-----------------------------------------------------------------------------
(* Claims about the delegating Enforcer (SpecDelegate) *)

Ended(w, op) == pc[w] = "idle" /\ call[w].op = op

\* Every attempt of the call was a failed one
AllAttemptsFailed(w) == fails[w] >= 1 /\ fails[w] = attempts[w]

\* C3: when the delegating enforce returns normally the value is non-false; every
\* other response, a body that is not JSON included, raises Forbidden.
C3_EnforceReturnsOnlyPermit ==
    \A w \in Workers :
        (Ended(w, "enforce") /\ outcome[w].kind = "return") => Truthy(outcome[w].val)

\* C4: with context.auth_tok absent the delegating check returns False at once
\* and attempts no HTTP request, whatever the action and target.
C4_CheckWithoutTokenIsFalse ==
    \A w \in Workers :
        (call[w].op = "check" /\ call[w].auth_tok = PyNone) =>
            /\ pc[w] = "idle"
            /\ attempts[w] = 0
            /\ outcome[w] = Return(PyBool(FALSE))

\* A check without a token was made while the other worker's request is in flight
C4_Witness ==
    /\ call["w1"].op = "check" /\ call["w1"].auth_tok = PyNone
    /\ call["w1"].action = "add_image"
    /\ outcome["w1"] = Return(PyBool(FALSE))
    /\ pc["w2"] = "request"

\* C5: with context.auth_tok absent the delegating enforce denies at once: no HTTP
\* request is attempted and no permit is returned.
C5_EnforceWithoutTokenDenies ==
    \A w \in Workers :
        (call[w].op = "enforce" /\ call[w].auth_tok = PyNone) =>
            /\ attempts[w] = 0
            /\ outcome[w].kind = "return" => ~Truthy(outcome[w].val)

\* C6: when every HTTP attempt fails, check and enforce raise ServiceError.
C6_TransportFaultRaisesServiceError ==
    \A w \in Workers :
        ((Ended(w, "check") \/ Ended(w, "enforce")) /\ AllAttemptsFailed(w)) =>
            outcome[w] = Raise("ServiceError")

\* C7: _http_request makes at most 3 attempts; when all fail it raises
\* ServiceError after exactly that many.
C7_AtMostThreeAttempts ==
    \A w \in Workers :
        /\ attempts[w] <= RETRIES
        /\ (pc[w] = "idle" /\ AllAttemptsFailed(w)) =>
              /\ attempts[w] = RETRIES
              /\ outcome[w] = Raise("ServiceError")

\* C8: failed attempts followed by a successful one within the retry bound give
\* that attempt's result: a call that ended after fewer failures than the bound
\* ended on a response (a returned value, or enforce's Forbidden).
C8_RetryThenSuccessReturns ==
    \A w \in Workers :
        ((Ended(w, "check") \/ Ended(w, "enforce"))
            /\ fails[w] >= 1 /\ fails[w] < RETRIES) =>
            \/ outcome[w].kind = "return"
            \/ outcome[w] = Raise("Forbidden")

\* C9: between attempts _http_request sleeps 0.5s, 1s, 2s (2^k / 2 before retry k):
\* after n failed attempts short of the bound it has slept n times, the k-th sleep
\* being 2^(k-1) half-seconds, and it never sleeps more often than it failed.
C9_BackoffSequence ==
    \A w \in Workers :
        /\ Len(sleeps[w]) <= fails[w]
        /\ fails[w] < RETRIES =>
              /\ Len(sleeps[w]) = fails[w]
              /\ \A k \in 1..Len(sleeps[w]) : sleeps[w][k] = 2 ^ (k - 1)

\* C10: a get_admin_token() call made while a token is cached issues no request
\* and returns the cached token; a call made with none cached issues exactly one
\* token request.
C10_CachedTokenIsReturned ==
    \A w \in Workers :
        Ended(w, "token") =>
            IF Truthy(call[w].cached)
            THEN attempts[w] = 0 /\ outcome[w] = Return(call[w].cached)
            ELSE attempts[w] = 1


\* Token responses that are malformed: no expires, an empty token id, an expiry
\* that is no timestamp, no access document, a body that is not JSON
MalformedTokenBodies == {KsNoExpires, KsEmptyId, KsBadTime, KsError, "Forbidden"}

\* C11: when the identity service answers the token request with a malformed
\* response, get_admin_token raises ServiceError and caches no token: the cached
\* token and expiry are as they were before the response.
C11_MalformedTokenResponseRaisesServiceError ==
    [][\A w \in Workers : \A body \in MalformedTokenBodies :
          (call[w].op = "token" /\ http_request_ok(w, body)) =>
              /\ outcome'[w] = Raise("ServiceError")
              /\ admin_token' = admin_token
              /\ admin_token_expiry' = admin_token_expiry]_vars

\* C12: single-flight refresh: when two workers call get_admin_token() while no
\* token is cached, at most one token request is in flight at any time.
C12_SingleFlightTokenRefresh ==
    Cardinality({w \in Workers : pc[w] = "request" /\ call[w].op = "token"}) <= 1

-----------------------------------------------------------------------------
(* Further claims about the local Enforcer (SpecPolicy) *)

\* The built-in rule set as the specification lists it
BuiltInRules ==
    [context_is_admin |-> RoleCheck("admin"),
     default |-> TrueCheck,
     manage_image_cache |-> RoleCheck("admin")]

LastCheck == lastCall.made /\ lastCall.op = "check" /\ lastCall.loaded

\* The last call's action has no entry in the rules it used
LastActionUnlisted == lastCall.action \notin DOMAIN lastCall.rules

\* What the default rule of the last call's rules gives for its target and
\* credentials
LastDefaultDecision ==
    CheckHolds(lastCall.rules["default"], lastCall.target, lastCall.credentials,
               lastCall.rules)

\* Some role of the set is "admin" when case is ignored
HasAdminRoleIgnoringCase(roles) == roles \cap {"admin", "Admin"} # {}

LastCheckIsAdmin == lastCall.made /\ lastCall.op = "check_is_admin" /\ lastCall.loaded

\* check(context, 'context_is_admin', context.to_dict()) on the rules the last
\* call used
LastCheckOfContextIsAdmin ==
    CheckOutcome([ok |-> TRUE, rules |-> lastCall.rules], lastCall.context,
                 "context_is_admin",
                 [user |-> lastCall.context.user, user_id |-> lastCall.context.user,
                  tenant |-> lastCall.context.tenant,
                  tenant_id |-> lastCall.context.tenant,
                  project_id |-> lastCall.context.tenant,
                  roles |-> lastCall.context.roles])

FileChangedSinceLoad ==
    /\ use_conf /\ file_cache.cached /\ policy_disk.exists
    /\ policy_disk.mtime > file_cache.mtime
    /\ policy_disk.doc # file_cache.data

\* The policy file was loaded before and is as it was then: same content, same mtime
FileUnchangedSinceLoad ==
    /\ use_conf /\ file_cache.cached /\ policy_disk.exists
    /\ policy_disk.mtime = file_cache.mtime
    /\ policy_disk.doc = file_cache.data

\* C15: when the rule file's content and mtime changed since the last check, the
\* next check is evaluated against a rule set that is exactly the new file's:
\* added and changed rules are in effect, removed rules are not.
C15_ReloadReflectsNewFile ==
    [][\A c \in Contexts, a \in PActions, t \in Targets :
          (FileChangedSinceLoad /\ Enforcer_check(c, a, t)) =>
              /\ rules' = policy_disk.doc
              /\ lastCall'.outcome =
                    CheckOutcome([ok |-> TRUE, rules |-> policy_disk.doc], c, a, t)]_vars

\* C16: a load that follows a load, the rule file unchanged (same mtime), neither
\* reads nor parses the file's contents again, and leaves the rule set and the
\* cached (mtime, contents) pair as they were.
C16_IdempotentLoad ==
    [][\A c \in Contexts, a \in PActions, t \in Targets :
          (FileUnchangedSinceLoad /\ Enforcer_check(c, a, t)) =>
              /\ ~load_rules.read
              /\ ~load_rules.parsed
              /\ rules' = rules
              /\ file_cache' = file_cache]_vars

\* C17: an Enforcer constructed when no policy file is located evaluates every
\* call against the built-in rule set (context_is_admin: role:admin, default:
\* allow-all, manage_image_cache: role:admin), reads no policy file and leaves
\* the file cache empty.
C17_NoFileUsesBuiltInRules ==
    ~use_conf =>
        /\ rules = BuiltInRules
        /\ file_cache = NoCache
        /\ lastCall.made =>
              /\ lastCall.loaded
              /\ ~lastCall.read
              /\ lastCall.rules = BuiltInRules
              /\ lastCall.op = "enforce" =>
                    (lastCall.outcome = Raise("Forbidden")
                        <=> ~RuleResult(BuiltInRules, lastCall.action, lastCall.target,
                                        lastCall.credentials))
              /\ lastCall.op # "enforce" =>
                    lastCall.outcome =
                        Return(PyBool(RuleResult(BuiltInRules, lastCall.action,
                                                 lastCall.target, lastCall.credentials)))

\* An Enforcer constructed without a policy file denied manage_image_cache to a
\* member under the built-in rules, a policy file having appeared since
C17_Witness ==
    /\ ~use_conf
    /\ policy_disk.exists
    /\ lastCall.made /\ lastCall.op = "check"
    /\ lastCall.action = "manage_image_cache"
    /\ lastCall.context.roles = {"member"}
    /\ lastCall.outcome = Return(PyBool(FALSE))

\* C18: when the policy file that was present at construction has been deleted,
\* check and enforce fall back to the built-in rule set and raise no error.
C18_DeletedFileFallsBack ==
    [][\A c \in Contexts, a \in PActions, t \in Targets :
          /\ (use_conf /\ ~policy_disk.exists /\ Enforcer_check(c, a, t)) =>
                lastCall'.outcome =
                    CheckOutcome([ok |-> TRUE, rules |-> BuiltInRules], c, a, t)
          /\ (use_conf /\ ~policy_disk.exists /\ Enforcer_enforce(c, a, t)) =>
                lastCall'.outcome =
                    EnforceOutcome([ok |-> TRUE, rules |-> BuiltInRules], c, a, t)]_vars

\* C19: a check that comes with a reload evaluates against the complete rule set
\* installed before it or the complete rule set of the file as loaded, never a
\* mixture of the two; the installed rule set is replaced by one of these.
C19_SnapshotOldOrNew ==
    [][\A c \in Contexts, a \in PActions, t \in Targets :
          (use_conf /\ load_rules.ok /\ Enforcer_check(c, a, t)) =>
              /\ lastCall'.rules \in {rules, load_rules.file_cache.data}
              /\ rules' \in {rules, load_rules.file_cache.data}]_vars

-----------------------------------------------------------------------------
(* Claims about the PDP endpoints (SpecPdp) *)

\* C20: each PDP endpoint (check_glance, enforce_glance, check_nova,
\* enforce_nova) returns False whenever the underlying enforcer raises Forbidden,
\* the exception not leaving the endpoint, and returns the enforcer's non-false
\* result on a permit.
C20_EndpointTurnsDenyIntoFalse ==
    lastCall.made =>
        /\ lastCall.enforcer = Raise("Forbidden") =>
              lastCall.outcome = Return(PyBool(FALSE))
        /\ lastCall.enforcer.kind = "return" =>
              /\ lastCall.outcome = lastCall.enforcer
              /\ Truthy(lastCall.outcome.val)

\* C23: the Enforcer never mutates the RequestContext it is given: after enforce,
\* check and check_is_admin the context's auth_tok, user, tenant, roles, is_admin,
\* read_only and show_deleted are what they were, and the credentials are made of
\* its roles, user and tenant only.
C23_ContextNotMutated ==
    lastCall.made =>
        /\ \A f \in {"auth_tok", "user", "tenant", "roles", "is_admin", "read_only",
                     "show_deleted"} :
              lastCall.context_after[f] = lastCall.context[f]
        /\ DOMAIN lastCall.credentials = {"roles", "user", "tenant"}
        /\ \A f \in {"roles", "user", "tenant"} :
              lastCall.credentials[f] = lastCall.context[f]

\* check_is_admin has answered for a context that is not admin
C23_Witness ==
    /\ lastCall.made
    /\ lastCall.op = "check_is_admin"
    /\ lastCall.context.roles = {"member"}
    /\ ~lastCall.context.is_admin
    /\ lastCall.context_after = lastCall.context
    /\ lastCall.outcome = Return(PyBool(FALSE))

-----------------------------------------------------------------------------
(* Further claims about the delegating Enforcer (SpecDelegate) *)

\* C24: the connection of _http_request is closed after every attempt: whenever
\* _http_request has returned or raised the connection is closed, and between
\* attempts, before a retry reopens it, it is closed as well.
C24_ConnectionClosedAfterAttempt ==
    \A w \in Workers :
        /\ (pc[w] = "idle" /\ attempts[w] >= 1) => conn[w] = "closed"
        /\ (pc[w] = "request" /\ attempts[w] >= 1) => conn[w] = "closed"
        /\ (pc[w] = "request" /\ attempts[w] = 0) => conn[w] = "new"

\* A check's request was answered and a token request's attempt failed: both
\* calls have ended, their connections closed
C24_Witness ==
    /\ Ended("w1", "check") /\ attempts["w1"] = 1 /\ outcome["w1"].kind = "return"
    /\ conn["w1"] = "closed"
    /\ Ended("w2", "token") /\ fails["w2"] = 1 /\ outcome["w2"].kind = "raise"
    /\ conn["w2"] = "closed"

\* C25: a cached admin token is present only with the expiry of the same token
\* response; a get_admin_token() call made while an expiry is cached returns the
\* cached token when it is still good or else, the soon-to-expire token
\* invalidated, issues a new token request; it never ends otherwise.
C25_TokenCacheConsistency ==
    [][/\ Truthy(admin_token') => Truthy(admin_token_expiry')
       /\ \A w \in Workers :
             (Truthy(admin_token_expiry) /\ get_admin_token(w)) =>
                 \/ outcome'[w] = Return(admin_token)
                 \/ pc'[w] = "request" /\ call'[w].cached = PyNone]_vars

\* C26: _json_request never raises because of the body's format: a body that is
\* not JSON gives the empty mapping to the caller; the request carries the
\* caller's headers over the default Content-type and Accept, and its path is the
\* admin prefix followed by the given path.
C26_JsonRequestToleratesBody ==
    [][\A w \in Workers : \A body \in BodiesFor(call[w].op) :
          (http_request_ok(w, body) /\ ~JsonLoads(body).ok) =>
              /\ outcome'[w] # Raise("AttributeError")
              /\ call[w].op = "check" => outcome'[w] = Return(PyDict(EmptyMap))
              /\ call[w].op = "enforce" => outcome'[w] = Return(PyDict(EmptyMap))
              /\ call[w].request.headers["Content-type"] = PyStr("application/json")
              /\ call[w].request.headers["Accept"] = PyStr("application/json")
              /\ call[w].op \in {"check", "enforce"} =>
                    /\ call[w].request.headers["X-Auth-Token"] = call[w].auth_tok
                    /\ call[w].request.headers["X-Action"] = PyStr(call[w].action)
                    /\ call[w].request.path \in
                          {"/identity_admin/v1/pdp/check_glance",
                           "/identity_admin/v1/pdp/enforce_glance"}]_vars


-----------------------------------------------------------------------------
(* Claims about the policy proxies and ImageTarget (SpecProxy) *)

\* The enforce events of the last operation, and whether one of them raised
LastEnforces == EnforceEvents(lastOp.events)
LastDenied == \E i \in 1..Len(lastOp.events) :
                  lastOp.events[i].e = "enforce" /\ ~Permitted(lastOp.events[i])
\* Every call of a wrapped object in the last operation comes after an enforce of
\* `action` on `tname` that returned
LastBaseAfterEnforce(action, tname) ==
    \A i \in 1..Len(lastOp.events) :
        lastOp.events[i].e = "base" =>
            \E j \in 1..(i-1) :
                /\ lastOp.events[j].e = "enforce"
                /\ lastOp.events[j].action = action
                /\ lastOp.events[j].target = tname
                /\ Permitted(lastOp.events[j])
LastHasBase == \E i \in 1..Len(lastOp.events) : lastOp.events[i].e = "base"

\* C21: for every intercepted operation of the policy proxies (ImageRepoProxy
\* save/add/list, ImageProxy delete/deactivate/reactivate/get_data/set_data,
\* ImageMemberRepoProxy add/get/save/list/remove) the wrapped object's operation is
\* invoked only after policy.enforce for the mapped action has returned; if
\* enforce raises Forbidden the wrapped operation is never invoked and the wrapped
\* object is unchanged.
C21_EnforceBeforeAct ==
    (lastOp.made /\ lastOp.op \in GuardedMethods) =>
        /\ LastBaseAfterEnforce(MethodAction(lastOp.op), MethodTarget(lastOp.op))
        /\ LastDenied =>
              /\ ~LastHasBase
              /\ image = lastOp.before
              /\ lastOp.outcome = Raise("Forbidden")
        /\ ~LastDenied => LastHasBase /\ lastOp.outcome.kind = "return"

\* ImageProxy.delete was denied to a context without roles: only the enforce of
\* delete_image happened
C21_Witness ==
    /\ lastOp.made
    /\ lastOp.op = "ImageProxy.delete"
    /\ lastOp.context.roles = {}
    /\ Len(lastOp.events) = 1
    /\ lastOp.events[1].e = "enforce"
    /\ lastOp.events[1].action = "delete_image"
    /\ lastOp.outcome = Raise("Forbidden")

\* The key a lookup on an ImageTarget really asks for
LastKey == IF lastOp.key = "id" THEN "image_id" ELSE lastOp.key
LastHasExtra ==
    /\ "extra_properties" \in DOMAIN lastOp.target
    /\ lastOp.target["extra_properties"] # PyNone

\* C22 as stated: looking up a key on an ImageTarget never throws; 'id' is renamed
\* to 'image_id'; the value is the wrapped object's attribute if present,
\* otherwise the entry of its extra_properties; a key that is neither evaluates
\* to None.
C22_LookupNeverThrows_Original ==
    (lastOp.made /\ lastOp.op = "ImageTarget.__getitem__") =>
        /\ lastOp.outcome.kind = "return"
        /\ LastKey \in DOMAIN lastOp.target => lastOp.outcome.val = lastOp.target[LastKey]
        /\ (LastKey \notin DOMAIN lastOp.target /\ LastHasExtra
               /\ LastKey \in DOMAIN lastOp.target["extra_properties"].d) =>
              lastOp.outcome.val = lastOp.target["extra_properties"].d[LastKey]
        /\ (LastKey \notin DOMAIN lastOp.target
               /\ ~(LastHasExtra /\ LastKey \in DOMAIN lastOp.target["extra_properties"].d)) =>
              lastOp.outcome.val = PyNone

\* C22: a lookup on an ImageTarget renames 'id' to 'image_id' and returns the
\* wrapped object's attribute if present; otherwise, when the object has an
\* extra_properties mapping, it returns that mapping's entry and raises KeyError
\* if the mapping has no such entry; it returns None only when the object has no
\* extra_properties.
C22_LookupRaisesKeyErrorOnMissingExtra ==
    (lastOp.made /\ lastOp.op = "ImageTarget.__getitem__") =>
        /\ LastKey \in DOMAIN lastOp.target =>
              lastOp.outcome = Return(lastOp.target[LastKey])
        /\ (LastKey \notin DOMAIN lastOp.target /\ LastHasExtra) =>
              IF LastKey \in DOMAIN lastOp.target["extra_properties"].d
              THEN lastOp.outcome = Return(lastOp.target["extra_properties"].d[LastKey])
              ELSE lastOp.outcome = Raise("KeyError")
        /\ (LastKey \notin DOMAIN lastOp.target /\ ~LastHasExtra) =>
              lastOp.outcome = Return(PyNone)

\* 'id' has been looked up on the target of the image: its image_id came back
C22_Witness ==
    /\ lastOp.made
    /\ lastOp.op = "ImageTarget.__getitem__"
    /\ lastOp.key = "id"
    /\ "extra_properties" \in DOMAIN lastOp.target
    /\ lastOp.outcome = Return(PyStr("i1"))

\* The image an ImageRepoProxy.get asked for exists in the repository
LastGetFound == lastOp.before["image_id"] = lastOp.arg

\* C27: ImageRepoProxy.get: when the base repository raises NotFound and
\* get_image is denied on the empty target, get raises Forbidden, not NotFound;
\* NotFound is re-raised only when that enforcement permits; when the image
\* exists it is returned only if get_image is permitted on that image's target.
C27_GetHidesExistence ==
    (lastOp.made /\ lastOp.op = "ImageRepoProxy.get") =>
        /\ \E i \in 1..Len(lastOp.events) :
              /\ lastOp.events[i].e = "enforce"
              /\ lastOp.events[i].action = "get_image"
              /\ lastOp.events[i].target = IF LastGetFound THEN "image" ELSE "empty"
              /\ lastOp.events[i].outcome =
                    EnforceOutcome([ok |-> TRUE, rules |-> rules], lastOp.context,
                                   "get_image",
                                   IF LastGetFound THEN ImageTarget(lastOp.before)
                                   ELSE EmptyTarget)
        /\ LastDenied => lastOp.outcome = Raise("Forbidden")
        /\ lastOp.outcome = Raise("NotFound") => ~LastGetFound /\ ~LastDenied
        /\ lastOp.outcome.kind = "return" =>
              LastGetFound /\ ~LastDenied /\ lastOp.outcome.val = lastOp.arg
        /\ image = lastOp.before

\* An unknown image was asked for by a context get_image is denied to on {}:
\* Forbidden came back
C27_Witness ==
    /\ lastOp.made
    /\ lastOp.op = "ImageRepoProxy.get"
    /\ ~LastGetFound
    /\ lastOp.context.roles = {"member"}
    /\ lastOp.outcome = Raise("Forbidden")

\* C28: setting ImageProxy.visibility enforces publicize_image if and only if the
\* new value is 'public'; if that raises Forbidden the image's visibility is
\* unchanged, and any other value never consults the policy. Likewise
\* ImageFactoryProxy.new_image enforces publicize_image on the empty target,
\* before creating the image, exactly when visibility='public' is requested.
C28_PublicizeOnlyForPublic ==
    /\ (lastOp.made /\ lastOp.op = "ImageProxy.visibility") =>
          /\ lastOp.arg = PyStr("public") =>
                /\ Len(lastOp.events) = 1
                /\ lastOp.events[1].e = "enforce"
                /\ lastOp.events[1].action = "publicize_image"
                /\ lastOp.events[1].target = "image"
          /\ lastOp.arg # PyStr("public") => lastOp.events = <<>>
          /\ IF LastDenied
             THEN lastOp.outcome = Raise("Forbidden") /\ image = lastOp.before
             ELSE image = [lastOp.before EXCEPT !["visibility"] = lastOp.arg]
    /\ (lastOp.made /\ lastOp.op = "ImageFactoryProxy.new_image") =>
          /\ lastOp.arg = PyStr("public") =>
                /\ lastOp.events # <<>>
                /\ lastOp.events[1].e = "enforce"
                /\ lastOp.events[1].action = "publicize_image"
                /\ lastOp.events[1].target = "empty"
          /\ lastOp.arg # PyStr("public") => LastEnforces = <<>>
          /\ IF LastDenied
             THEN lastOp.outcome = Raise("Forbidden") /\ ~LastHasBase
             ELSE lastOp.events[Len(lastOp.events)].e = "base"

\* A member was refused making the private image public
C28_Witness ==
    /\ lastOp.made
    /\ lastOp.op = "ImageProxy.visibility"
    /\ lastOp.arg = PyStr("public")
    /\ lastOp.context.roles = {"member"}
    /\ lastOp.outcome = Raise("Forbidden")
    /\ image["visibility"] = PyStr("private")

\* The last assignment of locations takes a URL away from the image
LastRemovesUrl ==
    \E u \in ImageUrls :
        /\ \E i \in 1..Len(lastOp.before["locations"].l) : lastOp.before["locations"].l[i] = u
        /\ \A i \in 1..Len(lastOp.arg.l) : lastOp.arg.l[i] # u
LastDeleteEnforced ==
    \E i \in 1..Len(lastOp.events) :
        /\ lastOp.events[i].e = "enforce"
        /\ lastOp.events[i].action = "delete_image_location"
        /\ lastOp.events[i].target = "image"
        /\ i > 1
        /\ \A j \in 1..(i-1) : Permitted(lastOp.events[j])

\* C29: assigning ImageProxy.locations: a value that is neither a list nor an
\* ImageLocationsProxy raises Invalid before any policy is consulted; otherwise
\* set_image_location is enforced first; then, if a URL of the current locations
\* is missing from the new list, delete_image_location is enforced as well; only
\* after every enforcement has passed are the locations replaced. If any step
\* raises, the image's locations are unchanged.
C29_SetLocationsOrder ==
    (lastOp.made /\ lastOp.op = "ImageProxy.locations") =>
        /\ lastOp.arg.t \notin {"list", "ImageLocationsProxy"} =>
              lastOp.outcome = Raise("Invalid") /\ lastOp.events = <<>>
        /\ lastOp.arg.t \in {"list", "ImageLocationsProxy"} =>
              /\ lastOp.events # <<>>
              /\ lastOp.events[1].e = "enforce"
              /\ lastOp.events[1].action = "set_image_location"
              /\ lastOp.events[1].target = "image"
              /\ \A i \in 1..Len(lastOp.events) :
                    /\ lastOp.events[i].e = "enforce"
                    /\ i > 1 => Permitted(lastOp.events[i-1])
                    /\ lastOp.events[i].action = "delete_image_location" =>
                          LastRemovesUrl /\ i = Len(lastOp.events)
              /\ (LastRemovesUrl /\ ~LastDenied) => LastDeleteEnforced
              /\ LastDenied => lastOp.outcome = Raise("Forbidden")
              /\ ~LastDenied =>
                    /\ lastOp.outcome.kind = "return"
                    /\ image = [lastOp.before EXCEPT !["locations"] = PyListOf(lastOp.arg.l)]
        /\ lastOp.outcome.kind = "raise" => image = lastOp.before

\* A member who may set locations but not delete them assigned a list without
\* the image's URL: both actions were enforced and the locations stayed
C29_Witness ==
    /\ lastOp.made
    /\ lastOp.op = "ImageProxy.locations"
    /\ lastOp.arg = PyListOf(<<>>)
    /\ lastOp.before["locations"] = PyListOf(<<"file://a">>)
    /\ Len(lastOp.events) = 2
    /\ Permitted(lastOp.events[1])
    /\ lastOp.events[2].action = "delete_image_location"
    /\ lastOp.outcome = Raise("Forbidden")
    /\ image["locations"] = PyListOf(<<"file://a">>)

\* C30: every operation on an ImageLocationsProxy enforces its action on the
\* empty target before touching the wrapped list: count, index, item access,
\* containment, len and iteration require get_image_location; append, extend,
\* insert, reverse, in-place add and item assignment require set_image_location;
\* pop, remove, item and slice deletion require delete_image_location. When the
\* enforcement raises Forbidden the wrapped list is neither read nor modified.
C30_LocationsProxyEnforces ==
    (lastOp.made /\ lastOp.op \in LocationFuncs) =>
        /\ lastOp.events # <<>>
        /\ lastOp.events[1].e = "enforce"
        /\ lastOp.events[1].target = "empty"
        /\ lastOp.op \in {"count", "index", "__getitem__", "__contains__", "__len__",
                          "__iter__"} =>
              lastOp.events[1].action = "get_image_location"
        /\ lastOp.op \in {"append", "extend", "insert", "reverse", "__iadd__",
                          "__setitem__"} =>
              lastOp.events[1].action = "set_image_location"
        /\ lastOp.op \in {"pop", "remove", "__delitem__", "__delslice__"} =>
              lastOp.events[1].action = "delete_image_location"
        /\ \A i \in 2..Len(lastOp.events) :
              lastOp.events[i].e = "base" /\ Permitted(lastOp.events[1])
        /\ LastDenied =>
              /\ ~LastHasBase
              /\ image = lastOp.before
              /\ lastOp.outcome = Raise("Forbidden")
        /\ ~LastDenied => LastHasBase

\* pop was refused to a member, the list kept its location
C30_Witness ==
    /\ lastOp.made
    /\ lastOp.op = "pop"
    /\ lastOp.context.roles = {"member"}
    /\ lastOp.events[1].action = "delete_image_location"
    /\ lastOp.outcome = Raise("Forbidden")
    /\ image["locations"] = PyListOf(<<"file://a">>)

-----------------------------------------------------------------------------
(* Claims about RequestContext (SpecContext) *)

\* C31: after a RequestContext is constructed, is_admin is true iff the is_admin
\* argument was true or the enforcer's check_is_admin(context) returned a true
\* value; the enforcer is not consulted when the argument is already true; and
\* show_deleted is true iff the show_deleted argument was true or is_admin is true.
C31_ContextAdminAndShowDeleted ==
    (request_context.made /\ request_context.constructed) =>
        /\ Truthy(request_context.obj.is_admin) <=>
              \/ request_context.args.is_admin
              \/ /\ request_context.consulted
                 /\ request_context.answer.kind = "return"
                 /\ Truthy(request_context.answer.val)
        /\ request_context.args.is_admin => ~request_context.consulted
        /\ ~request_context.args.is_admin =>
              /\ request_context.consulted
              /\ request_context.answer =
                    PolicyEnforceResult(
                        RuleResult(rules, "context_is_admin",
                                   to_dict(request_context.args),
                                   Credentials(request_context.args)),
                        FALSE, "PolicyNotAuthorized")
        /\ show_deleted(request_context.obj) <=>
              \/ request_context.args.show_deleted
              \/ Truthy(request_context.obj.is_admin)

\* A context made for an admin role without either flag: the enforcer made it
\* admin, and it sees deleted images
C31_Witness ==
    /\ request_context.made
    /\ request_context.constructed
    /\ request_context.args.roles = {"admin"}
    /\ ~request_context.args.is_admin
    /\ ~request_context.args.show_deleted
    /\ request_context.consulted
    /\ request_context.obj.is_admin = PyBool(TRUE)
    /\ show_deleted(request_context.obj)

-----------------------------------------------------------------------------
(* Claims about Enforcer.add_rules (SpecAddRules) *)

\* C32: add_rules(rules) adds to the current rule set without overwriting it:
\* every existing rule whose name is not in `rules` keeps its expression, every
\* name in `rules` maps to the new expression afterwards, and use_conf is unchanged.
C32_AddRulesKeepsOthers ==
    (lastCall.made /\ lastCall.op = "add_rules") =>
        /\ DOMAIN rules = DOMAIN lastCall.rules_before \cup DOMAIN lastCall.added
        /\ \A n \in DOMAIN lastCall.rules_before \ DOMAIN lastCall.added :
              rules[n] = lastCall.rules_before[n]
        /\ \A n \in DOMAIN lastCall.added : rules[n] = lastCall.added[n]
        /\ use_conf = lastCall.use_conf_before

\* A rule for get_image was added to rules loaded from the policy file: it
\* replaced the file's, the file's other rules stayed
C32_Witness ==
    /\ lastCall.made
    /\ lastCall.op = "add_rules"
    /\ use_conf
    /\ lastCall.added = [get_image |-> FalseCheck]
    /\ "get_image" \in DOMAIN lastCall.rules_before
    /\ lastCall.rules_before["get_image"] # FalseCheck
    /\ rules["get_image"] = FalseCheck
    /\ "default" \in DOMAIN rules

-----------------------------------------------------------------------------
(* Claims about RabbitStrategy (SpecRabbit) *)

\* The number of attempts rabbit_max_retries stands for, a limit of 0 read as one
\* attempt
RetryLimit == IF rabbit.max_retries = 0 THEN 1 ELSE rabbit.max_retries

\* C33: reconnect attempts to connect at most rabbit_max_retries times within one
\* notification (or construction): once that many attempts have failed it raises
\* KombuMaxRetriesReached, having closed the connection and left it absent; a
\* successful attempt returns immediately.
C33_ReconnectAtMostMaxRetries ==
    rabbit.made =>
        /\ rabbit.connects <= RetryLimit
        /\ rabbit.exhausted => rabbit.connection = "none" /\ rabbit.failed = RetryLimit
        /\ rabbit.failed >= RetryLimit => rabbit.exhausted \/ rabbit.outcome.kind = "raise"

\* A _notify call has ended
NotifyEnded == rabbit.made /\ rabbit.caller = "_notify" /\ rabbit.pc = "idle"

\* C34: _notify never propagates a connection error or the retry-exhaustion error:
\* when the broker cannot be reached within the retry budget, on the initial
\* reconnect or after a failed publish, the message is passed to log_failure
\* exactly once and _notify returns normally; when a publish succeeds log_failure
\* is not called. Construction likewise swallows retry exhaustion.
C34_NotifySwallowsExhaustion ==
    /\ NotifyEnded =>
          /\ rabbit.outcome \in {Return(PyNone), Raise("Exception")}
          /\ rabbit.exhausted =>
                /\ rabbit.log_failures = 1
                /\ rabbit.outcome = Return(PyNone)
          /\ ~rabbit.exhausted => rabbit.log_failures = 0
    /\ (rabbit.made /\ rabbit.caller = "__init__" /\ rabbit.exhausted) =>
          rabbit.pc = "idle" /\ rabbit.outcome = Return(PyNone)

\* A publish failed, the reconnect after it ran out of attempts: log_failure was
\* called once and _notify returned
C34_Witness ==
    /\ NotifyEnded
    /\ rabbit.from = "publish"
    /\ rabbit.publishes = 1
    /\ rabbit.exhausted
    /\ rabbit.log_failures = 1
    /\ rabbit.outcome = Return(PyNone)

\* C35: every _notify call finishes for every behaviour of the broker, a broker
\* that accepts every connection and fails every publish included: the number of
\* reconnect and publish attempts in one call is bounded by the retry limit (at
\* most that many connects, and one publish more than that).
C35_NotifyAttemptsBounded ==
    (rabbit.made /\ rabbit.caller = "_notify") =>
        rabbit.connects + rabbit.publishes <= 2 * RetryLimit + 1


\* C36: in wait_on_children a child that exited with a status other than 0 is
\* removed from the children and not replaced, and when none is left after it
\* the server stops running; a child that exited with status 0 or was killed by
\* a signal is removed and replaced by exactly one new child. The number of
\* tracked children never exceeds the configured worker count.
C36_WorkerSupervision ==
    /\ server.made => Len(server.children) <= server.workers
    /\ (server.made /\ server.last.made) =>
          LET w    == server.last
              rest == ListRemove(w.before, w.pid)
          IN  /\ w.status = "exit_1" =>
                    /\ w.after = rest
                    /\ w.pid \notin Elems(w.after)
                    /\ (w.after = <<>> => ~w.running)
              /\ w.status \in {"exit_0", "signaled"} =>
                    /\ Len(w.after) = Len(w.before)
                    /\ SubSeq(w.after, 1, Len(rest)) = rest
                    /\ w.after[Len(w.after)] \notin Elems(rest)

\* The last of three workers exited with status 1 after the two others had:
\* no child is left and the server has stopped running
C36_Witness ==
    /\ server.made
    /\ server.workers = 3
    /\ server.last.made
    /\ server.last.status = "exit_1"
    /\ Len(server.last.before) = 1
    /\ server.children = <<>>
    /\ ~server.running

\* C37: after any sequence of read and iteration steps of a LimitingReader,
\* bytes_read is the total length of the data obtained from the source and has
\* not decreased in the last step; the step that takes bytes_read past the limit
\* raises ImageSizeLimitExceeded and hands none of its data to the caller, so
\* the caller has never received more than limit bytes in total.
C37_LimitingReader ==
    reader.made =>
        /\ reader.bytes_read = reader.obtained
        /\ reader.delivered <= reader.limit
        /\ reader.last.made =>
              /\ reader.bytes_read >= reader.last.bytes_before
              /\ (reader.last.bytes_before <= reader.limit
                    /\ reader.bytes_read > reader.limit) =>
                    /\ reader.last.outcome = Raise("ImageSizeLimitExceeded")
                    /\ reader.delivered = reader.last.delivered_before

\* A read of two bytes after two delivered bytes, with limit 3: it raised, and
\* the caller still has the two bytes
C37_Witness ==
    /\ reader.made
    /\ reader.limit = 3
    /\ reader.last.made
    /\ reader.last.op = "read"
    /\ reader.last.bytes_before = 2
    /\ reader.bytes_read = 4
    /\ reader.delivered = 2
    /\ reader.last.outcome = Raise("ImageSizeLimitExceeded")

\* The object of the last __call__'s i-th dispatch has a method named after the
\* action
HasNamed(i) ==
    /\ resource.action.t = "str"
    /\ resource.action.s \in resource.dispatches[i].methods

\* C38: every dispatch of a __call__ calls the method named after the action on
\* its object, and the object's 'default' method when it has no such method;
\* the dispatches go to the deserializer, the controller and the serializer in
\* this order; and when serialising raised, the controller's raw result is
\* returned.
C38_DispatchAndFallback ==
    (resource.made /\ resource.called) =>
        /\ \A i \in DOMAIN resource.dispatches :
              LET d == resource.dispatches[i]
              IN  /\ HasNamed(i) => d.result = Return(resource.action.s)
                  /\ (~HasNamed(i) /\ "default" \in d.methods) =>
                        d.result = Return("default")
        /\ \A i \in DOMAIN resource.dispatches :
              resource.dispatches[i].obj =
                  <<"deserializer", "controller", "serializer">>[i]
        /\ resource.serializer_raised =>
              resource.outcome = Return("action_result")
=============================================================================
